---- MODULE Spec2Model ----
(***************************************************************************)
(* Model of the real-time transcription core of MeetBetter                 *)
(* (src-tauri/src/lib.rs, src-tauri/src/deepgram.rs).                      *)
(*                                                                         *)
(* Spec      : session lifecycle.  The start_live_transcription and        *)
(*             stop_live_transcription commands, the streaming retry loop  *)
(*             around DeepgramTranscriber::start, the capture thread,      *)
(*             sender task and receiver task of every connection, and the  *)
(*             batch polling task.  One action per code segment between    *)
(*             two await points.                                           *)
(* SpecDemux : one streaming connection's receiver task (deepgram.rs) and  *)
(*             the transcript handler task (lib.rs) that commits segments. *)
(* SpecInbound : SpecDemux over the inbound frames that are skipped.       *)
(* SpecLog   : SpecDemux with the clear_transcription command.             *)
(* SpecMixer : one connection's capture callbacks, capture thread and      *)
(*             sender task, linked by the audio channel (deepgram.rs).     *)
(* SpecBatch : one batch session's polling task with the file sizes it     *)
(*             reads and the texts or errors it is returned (lib.rs).      *)
(* SpecClean : clean_transcript applied by add_manual_transcript (lib.rs). *)
(* SpecUpload : the bytes a batch transcription request reads (groq.rs).   *)
(* SpecGuard : the guards of start (lib.rs, deepgram.rs, realtime.rs,      *)
(*             system_audio.rs).                                           *)
(* SpecRecord : start_recording and stop_recording next to live            *)
(*             transcription (lib.rs).                                     *)
(* SpecMock  : the mock transcription commands and session tasks (lib.rs,  *)
(*             mock.rs).                                                   *)
(* SpecMonitor : MeetingMonitor::check_for_meetings and its locks          *)
(*             (meeting_monitor.rs).                                       *)
(***************************************************************************)
EXTENDS Integers, Sequences, FiniteSets, TLC

\* ------------------------------------------------------------------ bounds
\* number of accepted start_live_transcription calls explored
MaxSessions == 2

\* ------------------------------------------------------- program constants
MAX_RETRY_DELAY_MS == 30000
MAX_RETRIES == 10
INITIAL_RETRY_DELAY_MS == 1000

Sessions == 1..MaxSessions
None == 0

Min(a, b) == IF a < b THEN a ELSE b

\* The settings explored (settings.rs, loaded at lib.rs 64-71): streaming; the
\* fallback from Deepgram to Groq; Groq chosen with both keys stored;
\* AssemblyAI; nothing configured.
Configs ==
    { [provider |-> "Deepgram", deepgram |-> "key", groq |-> "", assemblyai |-> ""],
      [provider |-> "Deepgram", deepgram |-> "", groq |-> "key", assemblyai |-> ""],
      [provider |-> "Groq", deepgram |-> "key", groq |-> "key", assemblyai |-> ""],
      [provider |-> "AssemblyAI", deepgram |-> "", groq |-> "", assemblyai |-> "key"],
      [provider |-> "Deepgram", deepgram |-> "", groq |-> "", assemblyai |-> ""] }

VARIABLES
    \* AppState (lib.rs)
    transcription_provider, deepgram_api_key, groq_api_key, assemblyai_api_key,
    is_live_transcribing, deepgram_stop_flag, deepgram_transcriber,
    live_stop_signal, audio_recorder,
    \* sessions created by start_live_transcription
    nsessions, kind,
    \* streaming session: DeepgramTranscriber and the retry task
    is_running, retry_pc, retry_delay_ms, consecutive_failures, start_calls,
    last_error, has_system_audio,
    \* tasks spawned by DeepgramTranscriber::start
    capture, sender, receiver,
    \* batch session
    batch_pc, stop_chan,
    \* event sink, channel "transcription-status"
    status_events,
    \* one connection's receiver task (deepgram.rs 409-519)
    has_system_audio_recv, received, last_interim_text_ch0, last_interim_text_ch1,
    \* transcript channel (lib.rs 274) and handler task (lib.rs 281-334)
    sent, handled, current_interim_index, transcription, transcript_events,
    \* capture thread of one connection (deepgram.rs 182-385) and the audio
    \* channel to the sender task (deepgram.rs 175)
    sample_rate, mic_buffer, system_buffer, buffer, capture_pc, pending_chunk,
    audio_chan, ncallbacks,
    \* the last pass of the stereo loop: its outcome and the lengths of the
    \* mic and system buffers it found
    last_pass,
    \* batch task locals (lib.rs 397-402, 412) and the full texts it was returned
    last_full_text, batch_results, last_transcribed_size, current_size,
    consecutive_errors, batch_retry_delay_ms,
    \* the size of the recording when groq::transcribe_audio or
    \* assemblyai::upload_audio reads it, and the bytes submitted
    upload_size, payload,
    \* the RealtimeTranscriber and the DualAudioCapturer (realtime.rs,
    \* system_audio.rs): the is_running flag and the number of times start has
    \* spawned the capture thread (and tasks)
    comp_running, comp_spawned,
    \* AppState.is_recording (lib.rs 38)
    is_recording,
    \* AppState.is_mock_transcribing and mock_stop_signal (lib.rs 57-58), the
    \* number of mock session tasks spawned, and of each task: its place in
    \* run_mock_session, the value of its watch channel, its turn and whether
    \* the turn has a participant file
    is_mock_transcribing, mock_stop_signal, nmock, mock_pc, stop_signal, turn,
    participant_file,
    \* the MeetingMonitor (meeting_monitor.rs 44-48): the values behind its
    \* three locks, and of the call of check_for_meetings: the await it is
    \* at, the guards it holds, its locals and its return value
    settings, status, last_triggered_event_id,
    check_pc, guards, meeting, should_auto_start, check_result, nchecks

appVars == <<transcription_provider, deepgram_api_key, groq_api_key, assemblyai_api_key,
             is_live_transcribing, deepgram_stop_flag, deepgram_transcriber,
             live_stop_signal, audio_recorder>>
sessVars == <<nsessions, kind>>
retryVars == <<is_running, retry_pc, retry_delay_ms, consecutive_failures, start_calls,
               last_error, has_system_audio>>
taskVars == <<capture, sender, receiver>>
batchVars == <<batch_pc, stop_chan>>
demuxVars == <<has_system_audio_recv, received, last_interim_text_ch0,
               last_interim_text_ch1, sent, handled, current_interim_index,
               transcription, transcript_events>>
mixerVars == <<sample_rate, mic_buffer, system_buffer, buffer, capture_pc,
               pending_chunk, audio_chan, ncallbacks, last_pass>>
diffVars == <<last_full_text, batch_results, last_transcribed_size, current_size,
              consecutive_errors, batch_retry_delay_ms>>
\* the payload of a transcription request
uploadVars == <<upload_size, payload>>
compVars == <<comp_running, comp_spawned>>
recVars == <<is_recording>>
mockVars == <<is_mock_transcribing, mock_stop_signal, nmock, mock_pc, stop_signal,
              turn, participant_file>>
monitorVars == <<settings, status, last_triggered_event_id, check_pc, guards,
                 meeting, should_auto_start, check_result, nchecks>>
extraVars == <<uploadVars, compVars, recVars, mockVars, monitorVars>>
\* what the lifecycle actions leave alone
detailVars == <<demuxVars, mixerVars, diffVars, extraVars>>
vars == <<appVars, sessVars, retryVars, taskVars, batchVars, status_events, demuxVars,
          mixerVars, diffVars, extraVars>>

\* --------------------------------------------------------------- helpers

\* lib.rs 224-257: provider auto-selection, "Err" for the early returns
EffectiveProvider(provider, dg, groq, aai) ==
    CASE provider = "Deepgram" ->
            IF dg = "" THEN (IF groq # "" THEN "Groq" ELSE "Err") ELSE "Deepgram"
      [] provider = "Groq" ->
            IF groq = "" THEN (IF dg # "" THEN "Deepgram" ELSE "Err") ELSE "Groq"
      [] OTHER ->
            IF aai = "" THEN "Err" ELSE "AssemblyAI"

\* lib.rs 363: the delay after one more failure
NextRetryDelay_NoCap(d) == d * 2
NextRetryDelay(d) == Min(d * 2, MAX_RETRY_DELAY_MS)

\* lib.rs 354: the retry bound
RetryExhausted_OffByOne(f) == f > MAX_RETRIES
RetryExhausted(f) == f >= MAX_RETRIES

\* lib.rs 350-364: the Err arm of the retry loop, up to the sleep or the break
OnStartErr(s, e) ==
    /\ last_error' = [last_error EXCEPT ![s] = e]
    /\ consecutive_failures' = [consecutive_failures EXCEPT ![s] = @ + 1]
    /\ retry_pc' = [retry_pc EXCEPT
                      ![s] = IF RetryExhausted(consecutive_failures[s] + 1)
                             THEN "done" ELSE "sleeping"]

\* deepgram.rs 67, realtime.rs 74, system_audio.rs 106: the guard of start
AlreadyRunning_Never(flag) == FALSE
AlreadyRunning(flag) == flag

\* deepgram.rs 66-83: DeepgramTranscriber::start up to its first await.
\* mic_ok: a default input device with a default config exists.
CallStart(s, mic_ok, sys_audio) ==
    /\ start_calls' = [start_calls EXCEPT ![s] = @ + 1]
    /\ IF AlreadyRunning(is_running[s])
       THEN \* "Already running"
            /\ OnStartErr(s, "Already running")
            /\ UNCHANGED <<is_running, has_system_audio>>
       ELSE /\ is_running' = [is_running EXCEPT ![s] = TRUE]
            /\ IF mic_ok
               THEN /\ retry_pc' = [retry_pc EXCEPT ![s] = "connecting"]
                    /\ has_system_audio' = [has_system_audio EXCEPT ![s] = sys_audio]
                    /\ UNCHANGED <<consecutive_failures, last_error>>
               ELSE /\ OnStartErr(s, "No microphone found")
                    /\ UNCHANGED has_system_audio

\* ------------------------------------------------------------------ text
\* A text is a sequence of one-character strings.

UpperChars == <<"A","B","C","D","E","F","G","H","I","J","K","L","M",
                "N","O","P","Q","R","S","T","U","V","W","X","Y","Z">>
LowerChars == <<"a","b","c","d","e","f","g","h","i","j","k","l","m",
                "n","o","p","q","r","s","t","u","v","w","x","y","z">>

LowerChar(c) ==
    IF \E i \in 1..26 : UpperChars[i] = c
    THEN LowerChars[CHOOSE i \in 1..26 : UpperChars[i] = c] ELSE c
UpperChar(c) ==
    IF \E i \in 1..26 : LowerChars[i] = c
    THEN UpperChars[CHOOSE i \in 1..26 : LowerChars[i] = c] ELSE c

\* str::to_lowercase
ToLowercase(t) == [i \in 1..Len(t) |-> LowerChar(t[i])]

RECURSIVE TrimStart(_)
TrimStart(t) == IF t # <<>> /\ t[1] = " " THEN TrimStart(Tail(t)) ELSE t
RECURSIVE TrimEnd(_)
TrimEnd(t) ==
    IF t # <<>> /\ t[Len(t)] = " " THEN TrimEnd(SubSeq(t, 1, Len(t) - 1)) ELSE t
\* str::trim (deepgram.rs 426)
Trim(t) == TrimEnd(TrimStart(t))

\* str::replace: non-overlapping matches, left to right
RECURSIVE Replace(_, _, _)
Replace(str, pat, rep) ==
    IF Len(str) < Len(pat) THEN str
    ELSE IF SubSeq(str, 1, Len(pat)) = pat
         THEN rep \o Replace(SubSeq(str, Len(pat) + 1, Len(str)), pat, rep)
         ELSE <<str[1]>> \o Replace(Tail(str), pat, rep)

\* lib.rs 117-121
FILLER_WORDS == <<
    <<" ","u","m"," ">>, <<" ","u","h"," ">>, <<" ","e","r"," ">>, <<" ","a","h"," ">>,
    <<" ","l","i","k","e"," ">>, <<" ","y","o","u"," ","k","n","o","w"," ">>,
    <<" ","i"," ","m","e","a","n"," ">>, <<" ","s","o","r","t"," ","o","f"," ">>,
    <<" ","k","i","n","d"," ","o","f"," ">>, <<" ","b","a","s","i","c","a","l","l","y"," ">>,
    <<" ","a","c","t","u","a","l","l","y"," ">>, <<" ","l","i","t","e","r","a","l","l","y"," ">>,
    <<" ","r","i","g","h","t"," ">>, <<" ","o","k","a","y"," ","s","o"," ">> >>

\* lib.rs 127-129: the fillers k..14 replaced in turn by one space
RECURSIVE RemoveFillers(_, _)
RemoveFillers(str, k) ==
    IF k > Len(FILLER_WORDS) THEN str
    ELSE RemoveFillers(Replace(str, FILLER_WORDS[k], <<" ">>), k + 1)

\* lib.rs 132-135: split_whitespace().collect().join(" ")
RECURSIVE JoinWords(_)
JoinWords(t) ==
    IF t = <<>> THEN <<>>
    ELSE IF t[1] = " "
         THEN (IF TrimStart(t) = <<>> THEN <<>> ELSE <<" ">> \o JoinWords(TrimStart(t)))
         ELSE <<t[1]>> \o JoinWords(Tail(t))
SplitJoin(t) == JoinWords(TrimStart(t))

\* lib.rs 138-143
CapitalizeFirst(t) == IF t = <<>> THEN t ELSE <<UpperChar(t[1])>> \o Tail(t)

\* lib.rs 124-144
clean_transcript(text) ==
    CapitalizeFirst(SplitJoin(RemoveFillers(<<" ">> \o ToLowercase(text) \o <<" ">>, 1)))

\* --------------------------------------------------------- demultiplexer

\* number of inbound frames read on the connection
MaxFrames == 3

\* capacity of the transcript channel, lib.rs 274
TRANSCRIPT_CHANNEL_CAPACITY == 100

NoSpeaker == -1

T_hello == <<"h","e","l","l","o">>
T_hello_padded == <<" ","h","e","l","l","o"," ">>
T_hello_there == <<"h","e","l","l","o"," ","t","h","e","r","e">>
T_blank == <<" ">>

\* A text frame: parsed, whether serde_json::from_str returns Ok
\* (deepgram.rs 417); alternatives, the length of channel.alternatives (0
\* also when there is no channel); transcript, that of the first alternative.
Frame(t, c, sp, f, sf) ==
    [parsed |-> TRUE, msg_type |-> "Results", alternatives |-> 1, transcript |-> t,
     channel_index |-> c, speaker |-> sp, is_final |-> f, speech_final |-> sf]

\* Results frames with a transcript.  Multichannel connections (two input
\* channels, no diarization) carry the channel in channel_index and no speaker
\* tags; mono connections (diarize=true) carry the speaker of the first word.
\* On either channel: both texts as interim and as final; on the first
\* channel also the padded interim and a result final by speech_final alone.
ResultFrames(multichannel) ==
    LET first == IF multichannel THEN <<0, NoSpeaker>> ELSE <<0, 0>>
        second == IF multichannel THEN <<1, NoSpeaker>> ELSE <<0, 1>>
    IN  { Frame(t, x[1], x[2], f, FALSE) :
             t \in {T_hello, T_hello_there}, x \in {first, second}, f \in BOOLEAN }
        \cup { Frame(T_hello_padded, first[1], first[2], FALSE, FALSE),
               Frame(T_hello_there, first[1], first[2], FALSE, TRUE) }

\* frames that carry no transcript: a Results frame with blank text, a
\* Metadata frame
OtherFrames ==
    { Frame(T_blank, 0, NoSpeaker, TRUE, TRUE),
      [parsed |-> TRUE, msg_type |-> "Metadata", alternatives |-> 0,
       transcript |-> <<>>, channel_index |-> 0,
       speaker |-> NoSpeaker, is_final |-> FALSE, speech_final |-> FALSE] }

\* the frames that are skipped: those of OtherFrames, a text that does not
\* parse, a final Results frame without alternatives
SkippedFrames ==
    OtherFrames \cup
    { [parsed |-> FALSE, msg_type |-> "", alternatives |-> 0,
       transcript |-> <<>>, channel_index |-> 0,
       speaker |-> NoSpeaker, is_final |-> FALSE, speech_final |-> FALSE],
      [parsed |-> TRUE, msg_type |-> "Results", alternatives |-> 0,
       transcript |-> <<>>, channel_index |-> 0,
       speaker |-> NoSpeaker, is_final |-> TRUE, speech_final |-> FALSE] }

Frames(multichannel) == ResultFrames(multichannel) \cup OtherFrames

AllFrames == Frames(TRUE) \cup Frames(FALSE)

\* the frame can arrive on a connection of this mode
FrameFits(f, multichannel) ==
    f \in SkippedFrames \/ (multichannel <=> f.speaker = NoSpeaker)

\* deepgram.rs 417-429: the frame parses, is a Results message, has a first
\* alternative and its text is not blank
HasTranscript_Blank(f) ==
    f.parsed /\ f.msg_type = "Results" /\ f.alternatives > 0
HasTranscript(f) ==
    f.parsed /\ f.msg_type = "Results" /\ f.alternatives > 0 /\ Trim(f.transcript) # <<>>

\* deepgram.rs 470: last_interim.clear() after a final
AfterFinal_Kept(last_interim) == last_interim
AfterFinal(last_interim) == <<>>

\* deepgram.rs 432-453: the logical source of a frame
SourceOf_AlwaysMic(f, multichannel) == "Microphone"
SourceOf(f, multichannel) ==
    IF multichannel
    THEN (IF f.channel_index = 0 THEN "Microphone" ELSE "SystemAudio")
    ELSE (IF f.speaker = 0 THEN "Microphone" ELSE "SystemAudio")

\* deepgram.rs 466
IsFinalResult(f) == f.is_final \/ f.speech_final

\* deepgram.rs 479: an interim is sent only when it differs from the last one
InterimChanged_Always(text, last_interim) == TRUE
InterimChanged(text, last_interim) == text # last_interim

\* lib.rs 295-299
SpeakerLabel(speaker) ==
    IF speaker = 0 THEN "You"
    ELSE IF speaker = NoSpeaker THEN "Speaker" ELSE "Participant"

\* lib.rs 301: the handler commits a message to the transcript
CommitsMessage_Always(msg) == TRUE
CommitsMessage(msg) == msg.is_final

\* the demultiplexer variables before any frame is read
DemuxIdle ==
    /\ received = <<>>
    /\ last_interim_text_ch0 = <<>>
    /\ last_interim_text_ch1 = <<>>
    /\ sent = <<>>
    /\ handled = 0
    /\ current_interim_index = None
    /\ transcription = <<>>
    /\ transcript_events = <<>>
    /\ has_system_audio_recv = FALSE

\* the capture thread's variables before a connection exists
MixerIdle ==
    /\ sample_rate = None
    /\ mic_buffer = <<>>
    /\ system_buffer = <<>>
    /\ buffer = <<>>
    /\ capture_pc = "idle"
    /\ pending_chunk = <<>>
    /\ audio_chan = <<>>
    /\ ncallbacks = 0
    /\ last_pass = <<"none", 0, 0>>

\* no transcription request has read the recording
NoPayload == [patched |-> FALSE, riff |-> <<>>, data |-> <<>>, start |-> 0, len |-> -1]
\* meeting_monitor.rs 54-60: the status new() stores
NoStatus == [is_meeting_detected |-> FALSE, upcoming_meeting |-> "None",
             auto_start_triggered |-> FALSE]
NoMeeting == [kind |-> "none", id |-> "None", is_starting_soon |-> FALSE, within_ten |-> FALSE,
              meeting_app_detected |-> FALSE]

\* mock session tasks spawned, and conversation turns of a test directory
MaxMockTasks == 2
MaxTurns == 2
MockTasks == 1..MaxMockTasks

\* realtime.rs 66-71, system_audio.rs 85-93: new()
Components == {"RealtimeTranscriber", "DualAudioCapturer"}
ExtraIdle ==
    /\ upload_size = 0
    /\ payload = NoPayload
    /\ comp_running = [c \in Components |-> FALSE]
    /\ comp_spawned = [c \in Components |-> 0]
    /\ is_recording = FALSE
    /\ is_mock_transcribing = FALSE
    /\ mock_stop_signal = None
    /\ nmock = 0
    /\ mock_pc = [t \in MockTasks |-> "none"]
    /\ stop_signal = [t \in MockTasks |-> FALSE]
    /\ turn = [t \in MockTasks |-> 1]
    /\ participant_file = [t \in MockTasks |-> FALSE]
    /\ settings = [enabled |-> TRUE, detect_meeting_apps |-> TRUE,
                   auto_start_on_time |-> TRUE]
    /\ status = NoStatus
    /\ last_triggered_event_id = "None"
    /\ check_pc = "idle"
    /\ guards = {}
    /\ meeting = NoMeeting
    /\ should_auto_start = FALSE
    /\ check_result = "none"
    /\ nchecks = 0

\* lib.rs 397-402: the batch task's locals when it starts
BatchDiffIdle ==
    /\ last_full_text = <<>>
    /\ batch_results = <<>>
    /\ last_transcribed_size = 0
    /\ current_size = 0
    /\ consecutive_errors = 0
    /\ batch_retry_delay_ms = 1000

\* ------------------------------------------------------------------ Init
Init ==
    /\ \E c \in Configs :
          /\ transcription_provider = c.provider
          /\ deepgram_api_key = c.deepgram
          /\ groq_api_key = c.groq
          /\ assemblyai_api_key = c.assemblyai
    /\ is_live_transcribing = FALSE
    /\ deepgram_stop_flag = FALSE
    /\ deepgram_transcriber = None
    /\ live_stop_signal = None
    /\ audio_recorder = None
    /\ nsessions = 0
    /\ kind = [s \in Sessions |-> "none"]
    /\ is_running = [s \in Sessions |-> FALSE]
    /\ retry_pc = [s \in Sessions |-> "none"]
    /\ retry_delay_ms = [s \in Sessions |-> INITIAL_RETRY_DELAY_MS]
    /\ consecutive_failures = [s \in Sessions |-> 0]
    /\ start_calls = [s \in Sessions |-> 0]
    /\ last_error = [s \in Sessions |-> "none"]
    /\ has_system_audio = [s \in Sessions |-> FALSE]
    /\ capture = [s \in Sessions |-> "none"]
    /\ sender = [s \in Sessions |-> "none"]
    /\ receiver = [s \in Sessions |-> "none"]
    /\ batch_pc = [s \in Sessions |-> "none"]
    /\ stop_chan = [s \in Sessions |-> "none"]
    /\ status_events = {}
    /\ DemuxIdle
    /\ MixerIdle
    /\ BatchDiffIdle
    /\ ExtraIdle

\* ------------------------------------------------------- command handlers

\* lib.rs 214-514: start_live_transcription.  recorder_ok: AudioRecorder::new
\* succeeds (batch branch, line 381).
StartLive(recorder_ok) ==
    /\ UNCHANGED detailVars
    /\ nsessions < MaxSessions
    /\ LET eff == EffectiveProvider(transcription_provider, deepgram_api_key,
                                    groq_api_key, assemblyai_api_key)
           s == nsessions + 1
       IN  IF eff = "Err" \/ is_live_transcribing
           THEN UNCHANGED <<appVars, sessVars, retryVars, taskVars, batchVars,
                            status_events>>
           ELSE /\ is_live_transcribing' = TRUE
                /\ nsessions' = s
                /\ UNCHANGED <<transcription_provider, deepgram_api_key, groq_api_key,
                               assemblyai_api_key, deepgram_transcriber, taskVars,
                               is_running, consecutive_failures, start_calls,
                               last_error, has_system_audio, retry_delay_ms,
                               status_events>>
                /\ IF eff = "Deepgram"
                   THEN /\ deepgram_stop_flag' = FALSE
                        /\ kind' = [kind EXCEPT ![s] = "stream"]
                        /\ retry_pc' = [retry_pc EXCEPT ![s] = "spawned"]
                        /\ UNCHANGED <<live_stop_signal, audio_recorder, batchVars>>
                   ELSE /\ kind' = [kind EXCEPT ![s] = "batch"]
                        /\ live_stop_signal' = s
                        /\ UNCHANGED <<deepgram_stop_flag, retry_pc>>
                        /\ IF recorder_ok
                           THEN /\ audio_recorder' = s
                                /\ batch_pc' = [batch_pc EXCEPT ![s] = "select"]
                                /\ stop_chan' = [t \in Sessions |->
                                      IF t = s THEN "open"
                                      ELSE IF t = live_stop_signal /\ stop_chan[t] = "open"
                                           THEN "closed" ELSE stop_chan[t]]
                           ELSE \* line 381 returns Err: stop_rx is dropped, no task
                                /\ stop_chan' = [t \in Sessions |->
                                      IF t = s THEN "norecv"
                                      ELSE IF t = live_stop_signal /\ stop_chan[t] = "open"
                                           THEN "closed" ELSE stop_chan[t]]
                                /\ UNCHANGED <<audio_recorder, batch_pc>>

\* lib.rs 517-541: stop_live_transcription.  stop_ok: recorder.stop() succeeds.
StopLive(stop_ok) ==
    /\ UNCHANGED detailVars
    /\ deepgram_stop_flag' = TRUE
    /\ IF deepgram_transcriber # None
       THEN is_running' = [is_running EXCEPT ![deepgram_transcriber] = FALSE]
       ELSE UNCHANGED is_running
    /\ deepgram_transcriber' = None
    /\ IF live_stop_signal # None /\ stop_chan[live_stop_signal] = "open"
       THEN stop_chan' = [stop_chan EXCEPT ![live_stop_signal] = "sent"]
       ELSE UNCHANGED stop_chan
    /\ live_stop_signal' = None
    /\ audio_recorder' = None
    /\ IF audio_recorder # None /\ ~stop_ok
       THEN UNCHANGED is_live_transcribing
       ELSE is_live_transcribing' = FALSE
    /\ UNCHANGED <<transcription_provider, deepgram_api_key, groq_api_key,
                   assemblyai_api_key, sessVars, retry_pc, retry_delay_ms,
                   consecutive_failures, start_calls, last_error, has_system_audio,
                   taskVars, batch_pc, status_events>>

\* ------------------------------------------------- streaming retry task

\* lib.rs 338-345: the retry task starts and makes its first start call
RetryFirstCall(s, mic_ok, sys_audio) ==
    /\ UNCHANGED detailVars
    /\ retry_pc[s] = "spawned"
    /\ CallStart(s, mic_ok, sys_audio)
    /\ UNCHANGED <<appVars, sessVars, retry_delay_ms, taskVars, batchVars, status_events>>

\* deepgram.rs 164-523 and lib.rs 346-364: connect_async completes.
\* ok: the handshake succeeded.
ConnectDone(s, ok) ==
    /\ UNCHANGED detailVars
    /\ retry_pc[s] = "connecting"
    /\ IF ok
       THEN /\ capture' = [capture EXCEPT ![s] = "running"]
            /\ sender' = [sender EXCEPT ![s] = "running"]
            /\ receiver' = [receiver EXCEPT ![s] = "running"]
            /\ retry_pc' = [retry_pc EXCEPT ![s] = "done"]
            /\ UNCHANGED <<consecutive_failures, last_error>>
       ELSE /\ OnStartErr(s, "WebSocket connection failed")
            /\ UNCHANGED taskVars
    /\ UNCHANGED <<appVars, sessVars, is_running, retry_delay_ms, start_calls,
                   has_system_audio, batchVars, status_events>>

\* lib.rs 361-363 then 344-345: the sleep ends, the delay doubles, start is
\* called again
RetryWake(s, mic_ok, sys_audio) ==
    /\ UNCHANGED detailVars
    /\ retry_pc[s] = "sleeping"
    /\ retry_delay_ms' = [retry_delay_ms EXCEPT ![s] = NextRetryDelay(@)]
    /\ CallStart(s, mic_ok, sys_audio)
    /\ UNCHANGED <<appVars, sessVars, taskVars, batchVars, status_events>>

\* ---------------------------------------------- tasks of one connection

\* deepgram.rs 182-385: the capture thread ends.  Stereo: the flag is clear or
\* blocking_send failed because the sender task dropped audio_rx.  Mono: the
\* flag is clear, or the stream could not be built or played (360-380).
CaptureExit(s, stream_ok) ==
    /\ UNCHANGED detailVars
    /\ capture[s] = "running"
    /\ \/ ~is_running[s]
       \/ has_system_audio[s] /\ sender[s] \notin {"none", "running"}
       \/ ~has_system_audio[s] /\ ~stream_ok
    /\ capture' = [capture EXCEPT ![s] = "exited"]
    /\ UNCHANGED <<appVars, sessVars, retryVars, sender, receiver, batchVars, status_events>>

\* deepgram.rs 389-404: the sender task ends
SenderExit(s, reason) ==
    /\ UNCHANGED detailVars
    /\ sender[s] = "running"
    /\ CASE reason = "write_error" -> TRUE
         [] reason = "queue_closed" -> capture[s] = "exited"
         [] reason = "flag" -> ~is_running[s]
    /\ sender' = [sender EXCEPT ![s] = reason]
    /\ UNCHANGED <<appVars, sessVars, retryVars, capture, receiver, batchVars, status_events>>

\* deepgram.rs 409-519: the receiver task ends
ReceiverExit(s, reason) ==
    /\ UNCHANGED detailVars
    /\ receiver[s] = "running"
    /\ CASE reason = "read_error" -> TRUE
         [] reason = "closed" -> TRUE
         [] reason = "flag" -> ~is_running[s]
    /\ receiver' = [receiver EXCEPT ![s] = reason]
    /\ UNCHANGED <<appVars, sessVars, retryVars, capture, sender, batchVars, status_events>>

\* ------------------------------------------------------------ batch task

\* lib.rs 410-415: the 4 s timer wins the select; new_audio: at least
\* MIN_AUDIO_BYTES unseen bytes
BatchTick(s, new_audio) ==
    /\ UNCHANGED detailVars
    /\ batch_pc[s] = "select"
    /\ batch_pc' = [batch_pc EXCEPT ![s] = IF new_audio THEN "transcribing" ELSE "select"]
    /\ UNCHANGED <<appVars, sessVars, retryVars, taskVars, stop_chan, status_events>>

\* lib.rs 427-494: the transcription request completes
BatchResult(s, ok) ==
    /\ UNCHANGED detailVars
    /\ batch_pc[s] = "transcribing"
    /\ IF ok
       THEN /\ batch_pc' = [batch_pc EXCEPT ![s] = "select"]
            /\ UNCHANGED status_events
       ELSE /\ batch_pc' = [batch_pc EXCEPT ![s] = "backoff"]
            /\ status_events' = status_events \cup {[session |-> s, status |-> "retrying"]}
    /\ UNCHANGED <<appVars, sessVars, retryVars, taskVars, stop_chan>>

\* lib.rs 494: the backoff sleep ends
BatchBackoffDone(s) ==
    /\ UNCHANGED detailVars
    /\ batch_pc[s] = "backoff"
    /\ batch_pc' = [batch_pc EXCEPT ![s] = "select"]
    /\ UNCHANGED <<appVars, sessVars, retryVars, taskVars, stop_chan, status_events>>

\* lib.rs 406-409 and 505-507: stop_rx.recv() wins the select, the task ends
BatchStop(s) ==
    /\ UNCHANGED detailVars
    /\ batch_pc[s] = "select"
    /\ stop_chan[s] \in {"sent", "closed"}
    /\ batch_pc' = [batch_pc EXCEPT ![s] = "done"]
    /\ is_live_transcribing' = FALSE
    /\ UNCHANGED <<transcription_provider, deepgram_api_key, groq_api_key,
                   assemblyai_api_key, deepgram_stop_flag, deepgram_transcriber,
                   live_stop_signal, audio_recorder, sessVars, retryVars, taskVars,
                   stop_chan, status_events>>

Next ==
    \/ \E r \in BOOLEAN : StartLive(r)
    \/ \E k \in BOOLEAN : StopLive(k)
    \/ \E s \in Sessions, m \in BOOLEAN, a \in BOOLEAN : RetryFirstCall(s, m, a)
    \/ \E s \in Sessions, ok \in BOOLEAN : ConnectDone(s, ok)
    \/ \E s \in Sessions, m \in BOOLEAN, a \in BOOLEAN : RetryWake(s, m, a)
    \/ \E s \in Sessions, k \in BOOLEAN : CaptureExit(s, k)
    \/ \E s \in Sessions, r \in {"write_error", "queue_closed", "flag"} : SenderExit(s, r)
    \/ \E s \in Sessions, r \in {"read_error", "closed", "flag"} : ReceiverExit(s, r)
    \/ \E s \in Sessions, n \in BOOLEAN : BatchTick(s, n)
    \/ \E s \in Sessions, ok \in BOOLEAN : BatchResult(s, ok)
    \/ \E s \in Sessions : BatchBackoffDone(s)
    \/ \E s \in Sessions : BatchStop(s)

Spec == Init /\ [][Next]_vars


\* ======================================================== lifecycle claims

\* the streaming pipeline of session s: capture thread, sender, receiver
StreamActive(s) ==
    capture[s] = "running" \/ sender[s] = "running" \/ receiver[s] = "running"

\* the batch polling task of session s; a task whose stop signal is already
\* in its channel is on its way out and is not counted
BatchActive(s) ==
    batch_pc[s] \in {"select", "transcribing", "backoff"} /\ stop_chan[s] = "open"

ActivePipelines == {s \in Sessions : StreamActive(s) \/ BatchActive(s)}

\* C1: across any interleaving of start_live_transcription and
\* stop_live_transcription at most one transcription pipeline (streaming task
\* set or batch polling task) is active at any time.
C1_AtMostOnePipeline == Cardinality(ActivePipelines) <= 1

\* the retry task of s wakes from its backoff sleep and calls start again
WakeStep(s) == retry_pc[s] = "sleeping" /\ start_calls'[s] = start_calls[s] + 1

\* the failure the retry task of s is sleeping on was a failed connection
ConnectionFailed(s) == last_error[s] = "WebSocket connection failed"

\* C2: after a failed connection attempt, the call to start that follows the
\* backoff sleep makes a new connection attempt (Failed -> Connecting); only a
\* missing microphone may stop it before the connection.
C2_RetryReconnects ==
    [][\A s \in Sessions :
          (WakeStep(s) /\ ConnectionFailed(s)) =>
             \/ retry_pc'[s] = "connecting"
             \/ last_error'[s] = "No microphone found"]_vars

\* C3: a read error of the receiver or a write error of the sender moves the
\* session to Failed, with a reconnect pending or in progress, unless the
\* retry bound is exhausted.
C3_StreamErrorReconnects ==
    \A s \in Sessions :
        (receiver[s] = "read_error" \/ sender[s] = "write_error") =>
            \/ retry_pc[s] \in {"sleeping", "connecting"}
            \/ RetryExhausted(consecutive_failures[s])

\* C4: stop_live_transcription during a streaming session clears the running
\* flag of that session (so that its capture thread, sender and receiver exit).
C4_StopClearsRunningFlag ==
    [][(/\ is_live_transcribing
        /\ ~is_live_transcribing'
        /\ deepgram_stop_flag'
        /\ nsessions > 0
        /\ kind[nsessions] = "stream"
        /\ StreamActive(nsessions)) => ~is_running'[nsessions]]_vars

\* the delay after k doublings, in closed form
Pow2(k) == 2 ^ k
ExpectedDelay(k) == IF k >= 5 THEN 30000 ELSE 1000 * Pow2(k)

\* C5: the retry delay starts at 1000 ms, doubles on each consecutive failure
\* and is capped at 30000 ms: the k-th consecutive failure waits
\* min(1000 * 2^(k-1), 30000) ms, 30000 ms from the 6th on, and the delay is
\* always within [1000, 30000].
C5_BackoffSequence ==
    \A s \in Sessions :
        /\ retry_delay_ms[s] >= 1000
        /\ retry_delay_ms[s] <= 30000
        /\ retry_pc[s] = "sleeping" =>
              retry_delay_ms[s] = ExpectedDelay(consecutive_failures[s] - 1)
        /\ retry_pc[s] = "connecting" =>
              retry_delay_ms[s] = ExpectedDelay(consecutive_failures[s])

C5_Witness ==
    \E s \in Sessions :
        /\ retry_pc[s] = "sleeping"
        /\ consecutive_failures[s] = 8
        /\ retry_delay_ms[s] = 30000

\* C6: the retry loop makes at most 10 start attempts; after the 10th
\* consecutive failure it is finished, never asleep again; every step of the
\* loop decreases a bounded measure, so the loop always terminates.
C6_Bound ==
    \A s \in Sessions :
        /\ start_calls[s] <= 10
        /\ consecutive_failures[s] <= 10
        /\ consecutive_failures[s] = 10 => retry_pc[s] = "done"
        /\ retry_pc[s] = "sleeping" => start_calls[s] < 10

\* what is left of the retry loop of s: three units per start call still
\* allowed, plus the position inside the current iteration
RetryVariant(s) ==
    IF retry_pc[s] = "done" THEN 0
    ELSE 3 * (MAX_RETRIES - start_calls[s])
         + (CASE retry_pc[s] = "spawned" -> 3
              [] retry_pc[s] = "connecting" -> 2
              [] OTHER -> 1)

\* every step of the retry task of s brings it closer to its end
C6_Progress ==
    \A s \in Sessions :
        (retry_pc[s] # "none"
         /\ (retry_pc'[s] # retry_pc[s] \/ start_calls'[s] # start_calls[s]))
        => /\ RetryVariant(s)' < RetryVariant(s)
           /\ RetryVariant(s)' >= 0

C6_BoundedRetries == []C6_Bound /\ [][C6_Progress]_vars

C6_Witness ==
    \E s \in Sessions :
        /\ start_calls[s] = 10
        /\ consecutive_failures[s] = 10
        /\ retry_pc[s] = "done"

\* the retry task of s gives up: its last failure reaches the bound
ExhaustStep(s) ==
    /\ retry_pc[s] # "done"
    /\ retry_pc'[s] = "done"
    /\ consecutive_failures'[s] = consecutive_failures[s] + 1

\* C7: when the retry bound is exhausted the session ends in terminal Idle
\* (is_live_transcribing is false) and a fatal error reaches the event sink.
C7_ExhaustionSurfaces ==
    [][\A s \in Sessions :
          ExhaustStep(s) =>
             /\ (s = nsessions => ~is_live_transcribing')
             /\ \E e \in status_events' : e.session = s]_vars

\* ============================================================= SpecDemux
\* One established connection (session 1 streaming): its receiver task and
\* the transcript handler task.

\* session 1 is a streaming session whose connection is established: the
\* retry task is finished and the capture thread, sender and receiver run
Connected ==
    /\ transcription_provider = "Deepgram"
    /\ deepgram_api_key = "key"
    /\ groq_api_key = ""
    /\ assemblyai_api_key = ""
    /\ is_live_transcribing = TRUE
    /\ deepgram_stop_flag = FALSE
    /\ deepgram_transcriber = None
    /\ live_stop_signal = None
    /\ audio_recorder = None
    /\ nsessions = 1
    /\ kind = [s \in Sessions |-> IF s = 1 THEN "stream" ELSE "none"]
    /\ is_running = [s \in Sessions |-> s = 1]
    /\ retry_pc = [s \in Sessions |-> IF s = 1 THEN "done" ELSE "none"]
    /\ retry_delay_ms = [s \in Sessions |-> INITIAL_RETRY_DELAY_MS]
    /\ consecutive_failures = [s \in Sessions |-> 0]
    /\ start_calls = [s \in Sessions |-> IF s = 1 THEN 1 ELSE 0]
    /\ last_error = [s \in Sessions |-> "none"]
    /\ has_system_audio \in {[s \in Sessions |-> s = 1 /\ b] : b \in BOOLEAN}
    /\ capture = [s \in Sessions |-> IF s = 1 THEN "running" ELSE "none"]
    /\ sender = [s \in Sessions |-> IF s = 1 THEN "running" ELSE "none"]
    /\ receiver = [s \in Sessions |-> IF s = 1 THEN "running" ELSE "none"]
    /\ batch_pc = [s \in Sessions |-> "none"]
    /\ stop_chan = [s \in Sessions |-> "none"]
    /\ status_events = {}

\* deepgram.rs 407-412 and lib.rs 274-283: the receiver and the handler start
ReceiverStart ==
    /\ received = <<>>
    /\ last_interim_text_ch0 = <<>>
    /\ last_interim_text_ch1 = <<>>
    /\ sent = <<>>
    /\ handled = 0
    /\ current_interim_index = None
    /\ transcription = <<>>
    /\ transcript_events = <<>>
    /\ has_system_audio_recv = has_system_audio[1]

InitDemux ==
    /\ Connected
    /\ ReceiverStart
    /\ MixerIdle
    /\ BatchDiffIdle
    /\ ExtraIdle

lifecycleVars == <<appVars, sessVars, retryVars, taskVars, batchVars, status_events>>

\* deepgram.rs 414-501: the receiver reads one text frame and handles it
RecvFrame(f) ==
    /\ FrameFits(f, has_system_audio_recv)
    /\ receiver[1] = "running"
    /\ is_running[1]
    /\ Len(received) < MaxFrames
    /\ Len(sent) - handled < TRANSCRIPT_CHANNEL_CAPACITY
    /\ received' = Append(received, f)
    /\ IF ~HasTranscript(f)
       THEN UNCHANGED <<last_interim_text_ch0, last_interim_text_ch1, sent>>
       ELSE LET text == Trim(f.transcript)
                source == SourceOf(f, has_system_audio_recv)
                last_interim == IF source = "Microphone"
                                THEN last_interim_text_ch0 ELSE last_interim_text_ch1
                msg(final) == [text |-> text, is_final |-> final,
                               speaker |-> f.speaker, source |-> source]
                setLast(v) ==
                    IF source = "Microphone"
                    THEN /\ last_interim_text_ch0' = v
                         /\ UNCHANGED last_interim_text_ch1
                    ELSE /\ last_interim_text_ch1' = v
                         /\ UNCHANGED last_interim_text_ch0
            IN  IF IsFinalResult(f)
                THEN /\ sent' = Append(sent, msg(TRUE))
                     /\ setLast(AfterFinal(last_interim))
                ELSE IF InterimChanged(text, last_interim)
                     THEN /\ sent' = Append(sent, msg(FALSE))
                          /\ setLast(text)
                     ELSE UNCHANGED <<last_interim_text_ch0, last_interim_text_ch1, sent>>
    /\ UNCHANGED <<lifecycleVars, mixerVars, diffVars, extraVars, has_system_audio_recv, handled,
                   current_interim_index, transcription, transcript_events>>

\* Vec::remove: the element at index idx (0-based) is taken out
VecRemove(v, idx) == SubSeq(v, 1, idx) \o SubSeq(v, idx + 2, Len(v))

\* Vec::push (lib.rs 310): the element goes to the end
VecPush_Front(v, x) == <<x>> \o v
VecPush(v, x) == Append(v, x)

\* lib.rs 285-333: the handler takes the next message from the channel.
\* current_interim_index holds None or i + 1 for Some(i); the timestamp of a
\* segment is the wall clock and is left out.
HandleMessage ==
    /\ handled < Len(sent)
    /\ handled' = handled + 1
    /\ LET msg == sent[handled + 1]
           speaker_label == SpeakerLabel(msg.speaker)
       IN  IF msg.text = <<>>
           THEN UNCHANGED <<current_interim_index, transcription, transcript_events>>
           ELSE /\ transcript_events' =
                      Append(transcript_events,
                             [text |-> msg.text, speaker |-> speaker_label,
                              is_final |-> msg.is_final])
                /\ IF CommitsMessage(msg)
                   THEN LET trans == IF current_interim_index # None
                                        /\ current_interim_index - 1 < Len(transcription)
                                     THEN VecRemove(transcription, current_interim_index - 1)
                                     ELSE transcription
                        IN  /\ transcription' =
                                  VecPush(trans, [speaker |-> speaker_label,
                                                  text |-> clean_transcript(msg.text)])
                            /\ current_interim_index' = None
                   ELSE UNCHANGED <<current_interim_index, transcription>>
    /\ UNCHANGED <<lifecycleVars, mixerVars, diffVars, extraVars, has_system_audio_recv, received,
                   last_interim_text_ch0, last_interim_text_ch1, sent>>

NextDemux ==
    \/ \E f \in AllFrames : RecvFrame(f)
    \/ HandleMessage

SpecDemux == InitDemux /\ [][NextDemux]_vars

\* ============================================================ SpecInbound
\* SpecDemux over the frames that are skipped and the results with the text
\* "hello".
InboundFrames ==
    SkippedFrames \cup { f \in AllFrames : HasTranscript(f) /\ f.transcript = T_hello }

NextInbound ==
    \/ \E f \in InboundFrames : RecvFrame(f)
    \/ HandleMessage

SpecInbound == InitDemux /\ [][NextInbound]_vars

\* ---------------------------------------------------------------- SpecLog
\* The same connection with the command that empties the log.

\* lib.rs 759-765: clear_transcription.  The command has no guard; the summary
\* and the suggested replies it also empties are not part of this model.
ClearTranscription ==
    /\ transcription' = <<>>
    /\ UNCHANGED <<lifecycleVars, mixerVars, diffVars, extraVars, has_system_audio_recv, received,
                   last_interim_text_ch0, last_interim_text_ch1, sent, handled,
                   current_interim_index, transcript_events>>

NextLog ==
    \/ \E f \in AllFrames : RecvFrame(f)
    \/ HandleMessage
    \/ ClearTranscription

SpecLog == InitDemux /\ [][NextLog]_vars

\* =========================================================== demux claims

\* the logical channel a frame belongs to: the multichannel index, or in
\* diarization mode speaker 0 against everyone else
LogicalChannel(f) ==
    IF has_system_audio_recv
    THEN (IF f.channel_index = 0 THEN 0 ELSE 1)
    ELSE (IF f.speaker = 0 THEN 0 ELSE 1)

ChannelOfSource(src) == IF src = "Microphone" THEN 0 ELSE 1

IsResult(f) == f.msg_type = "Results" /\ Trim(f.transcript) # <<>>
IsInterim(f) == IsResult(f) /\ ~f.is_final /\ ~f.speech_final

\* the results of channel c, in the order the recognizer produced them
ResultsOn(c) == SelectSeq(received, LAMBDA f : IsResult(f) /\ LogicalChannel(f) = c)

\* result i of rs is an interim that does not repeat the interim before it
StartsRun(rs, i) ==
    /\ IsInterim(rs[i])
    /\ \/ i = 1
       \/ ~IsInterim(rs[i - 1])
       \/ Trim(rs[i - 1].transcript) # Trim(rs[i].transcript)

RunStarts(rs) == SelectSeq([i \in 1..Len(rs) |-> i], LAMBDA i : StartsRun(rs, i))

InterimsSentOn(c) ==
    SelectSeq(sent, LAMBDA m : ~m.is_final /\ ChannelOfSource(m.source) = c)

\* C8: consecutive interim results of one logical source with identical
\* trimmed text yield exactly one TranscriptMessage: the interim messages sent
\* for a source are, in order, the first interim of each run of identical
\* consecutive interims of that source.
C8_InterimDedup ==
    \A c \in {0, 1} :
        LET rs == ResultsOn(c)
            starts == RunStarts(rs)
            out == InterimsSentOn(c)
        IN  /\ Len(out) = Len(starts)
            /\ \A k \in 1..Len(out) : out[k].text = Trim(rs[starts[k]].transcript)

C8_Witness ==
    /\ Len(received) = 2
    /\ IsInterim(received[1]) /\ IsInterim(received[2])
    /\ LogicalChannel(received[1]) = LogicalChannel(received[2])
    /\ received[1].transcript # received[2].transcript
    /\ Trim(received[1].transcript) = Trim(received[2].transcript)
    /\ Len(sent) = 1

\* the receiver reads frame f in this step
Reads(f) == Len(received') = Len(received) + 1 /\ f = received'[Len(received')]

LastInterimOf(c) == IF c = 0 THEN last_interim_text_ch0 ELSE last_interim_text_ch1

\* C9: a result on one channel never changes the other channel's
\* last-interim text, and an interim that repeats the previous interim of its
\* own channel is suppressed whatever the other channel received in between.
C9_ChannelIndependence ==
    [][\A f \in AllFrames :
          (Reads(f) /\ IsResult(f)) =>
             LET c == LogicalChannel(f)
                 rs == ResultsOn(c)
             IN  /\ c = 0 => last_interim_text_ch1' = last_interim_text_ch1
                 /\ c = 1 => last_interim_text_ch0' = last_interim_text_ch0
                 /\ (/\ IsInterim(f)
                     /\ rs # <<>>
                     /\ IsInterim(rs[Len(rs)])
                     /\ Trim(rs[Len(rs)].transcript) = Trim(f.transcript))
                    => sent' = sent]_vars

C9_Witness ==
    /\ Len(received) = 3
    /\ IsInterim(received[1]) /\ IsInterim(received[3])
    /\ IsResult(received[2])
    /\ LogicalChannel(received[1]) = 0
    /\ LogicalChannel(received[2]) = 1
    /\ LogicalChannel(received[3]) = 0
    /\ Trim(received[1].transcript) = Trim(received[3].transcript)
    /\ Len(sent) = 2
    /\ LastInterimOf(0) = Trim(received[1].transcript)

FinalResults == SelectSeq(received, LAMBDA f : IsResult(f) /\ (f.is_final \/ f.speech_final))

T_Hello_there == <<"H","e","l","l","o"," ","t","h","e","r","e">>

Drained == handled = Len(sent)

\* C10: interim events are never committed: the committed log holds exactly
\* one segment per final message handled, and once every message is handled
\* one segment per final result with non-empty text, holding its cleaned
\* text; interim "hello" then final "hello there" gives the single segment
\* "Hello there".
C10_OnlyFinalsCommitted ==
    /\ Len(transcription) =
          Len(SelectSeq(SubSeq(sent, 1, handled), LAMBDA m : m.is_final))
    /\ Drained =>
          /\ Len(transcription) = Len(FinalResults)
          /\ \A i \in 1..Len(transcription) :
                transcription[i].text = clean_transcript(Trim(FinalResults[i].transcript))
    /\ (/\ Drained
        /\ Len(received) = 2
        /\ IsInterim(received[1]) /\ received[1].transcript = T_hello
        /\ (received[2].is_final \/ received[2].speech_final)
        /\ received[2].transcript = T_hello_there)
       => /\ Len(transcription) = 1
          /\ transcription[1].text = T_Hello_there

C10_Witness ==
    /\ Drained
    /\ Len(received) = 2
    /\ IsInterim(received[1]) /\ received[1].transcript = T_hello
    /\ (received[2].is_final \/ received[2].speech_final)
        /\ received[2].transcript = T_hello_there
    /\ Len(transcript_events) = 2
    /\ Len(transcription) = 1
    /\ transcription[1].text = T_Hello_there

\* ============================================================== SpecMixer
\* One established connection: the capture callbacks, the capture thread and
\* the sender task, linked by the audio channel (deepgram.rs 175-404).

\* sample rate of the input device, samples per second (a real device runs at
\* 16000 or more)
MaxSampleRate == 20
\* device callbacks delivered
MaxCallbacks == 4
\* chunks the audio channel holds in this model (the program's channel holds
\* 100, deepgram.rs 175)
MaxQueued == 2

SampleRates == {MaxSampleRate - 10, MaxSampleRate}

\* What a device hands to its callback: f32 samples, written in thousandths.
MicData == { <<500>>, <<-1000, 2000>> }
\* interleaved left/right frames of the system audio device
SystemData == { <<1000, 1000>>, <<200, 0, -600>> }

\* Rust `as i16` on a float in range: the fraction is dropped
TruncDiv(a, b) == IF a >= 0 THEN a \div b ELSE -((-a) \div b)

Clamp(x, lo, hi) == IF x < lo THEN lo ELSE IF x > hi THEN hi ELSE x

\* deepgram.rs 206, 320: (s.clamp(-1.0, 1.0) * 32767.0) as i16
ToI16(s) == TruncDiv(Clamp(s, -1000, 1000) * 32767, 1000)

\* deepgram.rs 232-235: left and right averaged, clamped, scaled
MonoOf(left, right) == TruncDiv(Clamp(left + right, -2000, 2000) * 32767, 2000)

\* deepgram.rs 229-237: data.chunks(2) mixed down to mono; a missing right
\* sample counts as 0.0
StereoToMono(data) ==
    [k \in 1..((Len(data) + 1) \div 2) |->
        MonoOf(data[2 * k - 1], IF 2 * k <= Len(data) THEN data[2 * k] ELSE 0)]

\* i16::to_le_bytes
I16ToLeBytes(x) == LET u == x % 65536 IN <<u % 256, u \div 256>>

\* deepgram.rs 317-323: the callback's samples as PCM16LE bytes
RECURSIVE PcmBytes(_)
PcmBytes(data) ==
    IF data = <<>> THEN <<>> ELSE I16ToLeBytes(ToI16(Head(data))) \o PcmBytes(Tail(data))

\* deepgram.rs 184-185
SamplesPer100ms == sample_rate \div 10
BufferSizeMono == SamplesPer100ms * 2

\* slice.get(i).copied().unwrap_or(0), i counted from 1
GetOr0(v, i) == IF i <= Len(v) THEN v[i] ELSE 0

\* deepgram.rs 276-282: the system samples of a tick
SystemSamples_Partial(buf, n) == IF Len(buf) >= n THEN SubSeq(buf, 1, n) ELSE buf
SystemSamples(buf, n) == IF Len(buf) >= n THEN SubSeq(buf, 1, n) ELSE [i \in 1..n |-> 0]

\* deepgram.rs 288-297: samples i..n interleaved, mic first
RECURSIVE Interleave_Swapped(_, _, _, _)
Interleave_Swapped(mic_samples, system_samples, i, n) ==
    IF i > n THEN <<>>
    ELSE I16ToLeBytes(GetOr0(system_samples, i)) \o I16ToLeBytes(GetOr0(mic_samples, i))
         \o Interleave_Swapped(mic_samples, system_samples, i + 1, n)
RECURSIVE Interleave(_, _, _, _)
Interleave(mic_samples, system_samples, i, n) ==
    IF i > n THEN <<>>
    ELSE I16ToLeBytes(GetOr0(mic_samples, i)) \o I16ToLeBytes(GetOr0(system_samples, i))
         \o Interleave(mic_samples, system_samples, i + 1, n)

InitMixer ==
    /\ Connected
    /\ ReceiverStart
    /\ BatchDiffIdle
    /\ ExtraIdle
    /\ sample_rate \in SampleRates
    /\ mic_buffer = <<>>
    /\ system_buffer = <<>>
    /\ buffer = <<>>
    /\ capture_pc = "idle"
    /\ pending_chunk = <<>>
    /\ audio_chan = <<>>
    /\ ncallbacks = 0
    /\ last_pass = <<"none", 0, 0>>

\* deepgram.rs 203-211: the mic callback of a stereo connection
MicCallback(data) ==
    /\ has_system_audio[1]
    /\ capture[1] = "running"
    /\ ncallbacks < MaxCallbacks
    /\ ncallbacks' = ncallbacks + 1
    /\ mic_buffer' = mic_buffer \o [i \in 1..Len(data) |-> ToI16(data[i])]
    /\ UNCHANGED <<lifecycleVars, demuxVars, diffVars, extraVars, sample_rate, system_buffer,
                   buffer, capture_pc, pending_chunk, audio_chan, last_pass>>

\* deepgram.rs 227-241: the system audio callback
SystemCallback(data) ==
    /\ has_system_audio[1]
    /\ capture[1] = "running"
    /\ ncallbacks < MaxCallbacks
    /\ ncallbacks' = ncallbacks + 1
    /\ system_buffer' = system_buffer \o StereoToMono(data)
    /\ UNCHANGED <<lifecycleVars, demuxVars, diffVars, extraVars, sample_rate, mic_buffer,
                   buffer, capture_pc, pending_chunk, audio_chan, last_pass>>

\* deepgram.rs 264-271: a pass that finds the mic buffer short leaves the
\* loop body before the system buffer is looked at
SkippedSystem_Drained(buf, n) ==
    IF Len(buf) >= n THEN SubSeq(buf, n + 1, Len(buf)) ELSE buf
SkippedSystem(buf, n) == buf

\* deepgram.rs 258-299: one pass of the capture thread's loop, from the end
\* of its sleep to the call of blocking_send, or to the continue of line 270
\* when it finds fewer than SamplesPer100ms mic samples.
MixerTick ==
    /\ has_system_audio[1]
    /\ capture[1] = "running"
    /\ capture_pc = "idle"
    /\ is_running[1]
    /\ LET n == SamplesPer100ms
       IN  IF Len(mic_buffer) >= n
           THEN LET mic_samples == SubSeq(mic_buffer, 1, n)
                    system_samples == SystemSamples(system_buffer, n)
                IN  /\ mic_buffer' = SubSeq(mic_buffer, n + 1, Len(mic_buffer))
                    /\ system_buffer' = IF Len(system_buffer) >= n
                                        THEN SubSeq(system_buffer, n + 1, Len(system_buffer))
                                        ELSE system_buffer
                    /\ pending_chunk' = Interleave(mic_samples, system_samples, 1, n)
                    /\ capture_pc' = "sending"
                    /\ last_pass' = <<"mixed", Len(mic_buffer), Len(system_buffer)>>
           ELSE /\ system_buffer' = SkippedSystem(system_buffer, n)
                /\ last_pass' = <<"skipped", Len(mic_buffer), Len(system_buffer)>>
                /\ UNCHANGED <<mic_buffer, pending_chunk, capture_pc>>
    /\ UNCHANGED <<lifecycleVars, demuxVars, diffVars, extraVars, sample_rate, buffer,
                   audio_chan, ncallbacks>>

\* deepgram.rs 316-331: the mic callback of a mono connection, up to the call
\* of blocking_send, which it makes with the buffer lock held
MonoCallback(data) ==
    /\ ~has_system_audio[1]
    /\ capture[1] = "running"
    /\ capture_pc = "idle"
    /\ ncallbacks < MaxCallbacks
    /\ ncallbacks' = ncallbacks + 1
    /\ LET buf == buffer \o PcmBytes(data)
       IN  IF Len(buf) >= BufferSizeMono
           THEN /\ pending_chunk' = buf
                /\ buffer' = <<>>
                /\ capture_pc' = "sending"
           ELSE /\ buffer' = buf
                /\ UNCHANGED <<pending_chunk, capture_pc>>
    /\ UNCHANGED <<lifecycleVars, demuxVars, diffVars, extraVars, sample_rate, mic_buffer,
                   system_buffer, audio_chan, last_pass>>

\* deepgram.rs 299-301, 329: blocking_send returns.  With the receiving end
\* alive it returns once the channel has room; with the receiving end dropped
\* it fails, which ends the stereo capture thread and is ignored by the mono
\* callback.
BlockingSend ==
    /\ capture_pc = "sending"
    /\ capture_pc' = "idle"
    /\ pending_chunk' = <<>>
    /\ IF sender[1] = "running"
       THEN /\ Len(audio_chan) < MaxQueued
            /\ audio_chan' = Append(audio_chan, pending_chunk)
            /\ UNCHANGED capture
       ELSE /\ capture' = [capture EXCEPT ![1] = IF has_system_audio[1] THEN "exited" ELSE @]
            /\ UNCHANGED audio_chan
    /\ UNCHANGED <<appVars, sessVars, retryVars, sender, receiver, batchVars,
                   status_events, demuxVars, diffVars, extraVars, sample_rate, mic_buffer,
                   system_buffer, buffer, ncallbacks, last_pass>>

\* deepgram.rs 391-400: the sender task takes the oldest chunk and writes it
\* to the socket, then tests the flag at the head of its loop.  ok: the write
\* succeeded.  A failed write or a clear flag ends the task, which drops the
\* receiving end with what it still holds.
SenderSend(ok) ==
    /\ sender[1] = "running"
    /\ audio_chan # <<>>
    /\ IF ok /\ is_running[1]
       THEN /\ audio_chan' = Tail(audio_chan)
            /\ UNCHANGED sender
       ELSE /\ audio_chan' = <<>>
            /\ sender' = [sender EXCEPT ![1] = IF ok THEN "flag" ELSE "write_error"]
    /\ UNCHANGED <<appVars, sessVars, retryVars, capture, receiver, batchVars,
                   status_events, demuxVars, diffVars, extraVars, sample_rate, mic_buffer,
                   system_buffer, buffer, capture_pc, pending_chunk, ncallbacks,
                   last_pass>>

\* deepgram.rs 391-392, 399: recv returns None once the capture thread has
\* dropped the sending ends and the queue is empty
SenderQueueClosed ==
    /\ sender[1] = "running"
    /\ audio_chan = <<>>
    /\ capture[1] = "exited"
    /\ sender' = [sender EXCEPT ![1] = "queue_closed"]
    /\ UNCHANGED <<appVars, sessVars, retryVars, capture, receiver, batchVars,
                   status_events, demuxVars, diffVars, extraVars, mixerVars>>

\* deepgram.rs 525-527: DeepgramTranscriber::stop clears the flag
TranscriberStop ==
    /\ is_running[1]
    /\ is_running' = [is_running EXCEPT ![1] = FALSE]
    /\ UNCHANGED <<appVars, sessVars, retry_pc, retry_delay_ms, consecutive_failures,
                   start_calls, last_error, has_system_audio, taskVars, batchVars,
                   status_events, demuxVars, diffVars, extraVars, mixerVars>>

\* deepgram.rs 258, 373-376: the capture thread finds the flag clear at the
\* head of its loop and ends, which drops the streams and the sending ends
CaptureStops ==
    /\ capture[1] = "running"
    /\ capture_pc = "idle"
    /\ ~is_running[1]
    /\ capture' = [capture EXCEPT ![1] = "exited"]
    /\ UNCHANGED <<appVars, sessVars, retryVars, sender, receiver, batchVars,
                   status_events, demuxVars, diffVars, extraVars, mixerVars>>

NextMixer ==
    \/ \E d \in MicData : MicCallback(d)
    \/ \E d \in SystemData : SystemCallback(d)
    \/ MixerTick
    \/ \E d \in MicData : MonoCallback(d)
    \/ BlockingSend
    \/ \E ok \in BOOLEAN : SenderSend(ok)
    \/ SenderQueueClosed
    \/ TranscriberStop
    \/ CaptureStops

SpecMixer == InitMixer /\ [][NextMixer]_vars

\* =========================================================== mixer claims

\* samples_per_100ms as the claims define it
PerTick == sample_rate \div 10

\* the j-th 16-bit sample of a chunk, j counted from 0
Sample(chunk, j) ==
    LET u == chunk[2 * j + 1] + 256 * chunk[2 * j + 2]
    IN  IF u >= 32768 THEN u - 65536 ELSE u

\* the chunks handed to the audio channel: those in it and the one in the
\* hands of blocking_send
Emitted == IF capture_pc = "sending" THEN Append(audio_chan, pending_chunk) ELSE audio_chan

\* C13: every chunk pushed to the outbound queue has byte length exactly
\* 4 * samples_per_100ms in stereo mode and exactly 2 * samples_per_100ms in
\* mono mode, where samples_per_100ms = sample_rate / 10.
C13_ChunkLength ==
    \A k \in 1..Len(Emitted) :
        Len(Emitted[k]) = IF has_system_audio[1] THEN 4 * PerTick ELSE 2 * PerTick

\* a step in which the capture thread drains the mic buffer for a chunk
TickStep ==
    /\ has_system_audio[1]
    /\ capture_pc = "idle"
    /\ capture_pc' = "sending"

\* C14: on a mixer tick where the mic buffer holds at least samples_per_100ms
\* samples but the system-audio buffer holds fewer, a chunk is still emitted:
\* it is handed to the outbound queue with samples_per_100ms zero samples as
\* its other channel (the odd-indexed samples), and it enters the queue as it
\* is.
C14_UnderflowPadsSilence ==
    [][/\ (TickStep /\ Len(mic_buffer) >= PerTick /\ Len(system_buffer) < PerTick)
          => /\ Len(pending_chunk') = 4 * PerTick
             /\ \A i \in 0..(PerTick - 1) : Sample(pending_chunk', 2 * i + 1) = 0
       /\ (capture_pc = "sending" /\ capture_pc' = "idle" /\ sender[1] = "running")
          => audio_chan' = Append(audio_chan, pending_chunk)]_vars

C14_Witness ==
    /\ has_system_audio[1]
    /\ PerTick = 2
    /\ Len(system_buffer) = 1
    /\ audio_chan # <<>>
    /\ Len(audio_chan[1]) = 8
    /\ Sample(audio_chan[1], 0) # 0
    /\ Sample(audio_chan[1], 1) = 0
    /\ Sample(audio_chan[1], 3) = 0

\* C15: in every emitted stereo chunk the even-indexed samples are exactly the
\* samples_per_100ms samples drained from the mic buffer, in order, and the
\* odd-indexed samples are exactly the samples drained from the system-audio
\* buffer, or zeros; what is drained leaves its buffer and nothing else does.
C15_ChannelsNotMixed ==
    [][TickStep =>
          /\ Len(pending_chunk') = 4 * PerTick
          /\ \A i \in 0..(PerTick - 1) :
                /\ Sample(pending_chunk', 2 * i) = mic_buffer[i + 1]
                /\ Sample(pending_chunk', 2 * i + 1) =
                      IF Len(system_buffer) >= PerTick THEN system_buffer[i + 1] ELSE 0
          /\ mic_buffer = SubSeq(mic_buffer, 1, PerTick) \o mic_buffer'
          /\ system_buffer' = IF Len(system_buffer) >= PerTick
                              THEN SubSeq(system_buffer, PerTick + 1, Len(system_buffer))
                              ELSE system_buffer]_vars

C15_Witness ==
    /\ has_system_audio[1]
    /\ PerTick = 2
    /\ capture_pc = "sending"
    /\ Len(pending_chunk) = 8
    /\ \A j \in 0..3 : Sample(pending_chunk, j) # 0
    /\ Sample(pending_chunk, 0) # Sample(pending_chunk, 1)
    /\ Sample(pending_chunk, 2) < 0

\* C16: the capture callback and the capture thread never block: in no
\* reachable state, a full outbound queue included, does the capture path
\* wait for queue space (in mono mode it would wait with the buffer lock
\* held).
C16_CaptureNeverWaits ==
    ~(/\ capture_pc = "sending"
      /\ sender[1] = "running"
      /\ Len(audio_chan) >= MaxQueued)

\* ============================================================== SpecBatch
\* One batch session: the polling task with the texts it is returned
\* (lib.rs 391-509).

\* transcription requests answered with a text
MaxBatchResults == 3

T_The_cat == <<"T","h","e"," ","c","a","t">>
T_The_cat_sat == <<"T","h","e"," ","c","a","t"," ","s","a","t">>
T_The_cat_sat_down == <<"T","h","e"," ","c","a","t"," ","s","a","t"," ","d","o","w","n">>
T_Hello_world == <<"H","e","l","l","o"," ","w","o","r","l","d">>
T_Goodbye == <<"G","o","o","d","b","y","e">>
T_Bye == <<"B","y","e">>

\* the full texts a transcription request returns
BatchTexts ==
    { <<>>, T_The_cat, T_The_cat_sat, T_The_cat_sat_down, T_Hello_world, T_Goodbye, T_Bye }

\* str::starts_with
StartsWith(str, pat) == Len(pat) <= Len(str) /\ SubSeq(str, 1, Len(pat)) = pat

\* lib.rs 435-446: the new text of a result against the last full text
BatchDelta_NoSameCheck(last, full_text) ==
    IF last = <<>> THEN full_text
    ELSE IF Len(full_text) > Len(last) /\ StartsWith(full_text, last)
         THEN Trim(SubSeq(full_text, Len(last) + 1, Len(full_text)))
         ELSE full_text
BatchDelta(last, full_text) ==
    IF last = <<>> THEN full_text
    ELSE IF Len(full_text) > Len(last) /\ StartsWith(full_text, last)
         THEN Trim(SubSeq(full_text, Len(last) + 1, Len(full_text)))
         ELSE IF full_text # last THEN full_text ELSE <<>>

\* lib.rs 448: the new text is committed and sent
EmitsDelta(new_text) == new_text # <<>> /\ Len(new_text) > 5

\* lib.rs 395: unseen bytes that trigger a transcription request
MIN_AUDIO_BYTES == 48000

\* the recording file grows in half-thresholds, up to MaxFileBlocks thresholds
MaxFileBlocks == 3

\* consecutive failed requests followed
MaxBatchErrors == 2

\* the sizes the metadata call (lib.rs 411-412) can report
FileSizes == { k * (MIN_AUDIO_BYTES \div 2) : k \in 0..(2 * MaxFileBlocks) }

\* u64::saturating_sub
SaturatingSub(a, b) == IF a >= b THEN a - b ELSE 0

\* lib.rs 475-497: the Err arm assigns neither cursor; the size cursor after it
CursorAfterFailure_Advanced(last_size, size) == size
CursorAfterFailure(last_size, size) == last_size

\* lib.rs 489-491: the delay the Err arm sleeps, doubled before the sleep
BatchNextDelay(d) == IF d < 30000 THEN Min(d * 2, 30000) ELSE d

\* the batch settings of Configs
BatchConfigs ==
    { c \in Configs :
        EffectiveProvider(c.provider, c.deepgram, c.groq, c.assemblyai)
            \in {"Groq", "AssemblyAI"} }

\* lib.rs 369-398: start_live_transcription has started batch session 1
InitBatch ==
    /\ \E c \in BatchConfigs :
          /\ transcription_provider = c.provider
          /\ deepgram_api_key = c.deepgram
          /\ groq_api_key = c.groq
          /\ assemblyai_api_key = c.assemblyai
    /\ is_live_transcribing = TRUE
    /\ deepgram_stop_flag = FALSE
    /\ deepgram_transcriber = None
    /\ live_stop_signal = 1
    /\ audio_recorder = 1
    /\ nsessions = 1
    /\ kind = [s \in Sessions |-> IF s = 1 THEN "batch" ELSE "none"]
    /\ is_running = [s \in Sessions |-> FALSE]
    /\ retry_pc = [s \in Sessions |-> "none"]
    /\ retry_delay_ms = [s \in Sessions |-> INITIAL_RETRY_DELAY_MS]
    /\ consecutive_failures = [s \in Sessions |-> 0]
    /\ start_calls = [s \in Sessions |-> 0]
    /\ last_error = [s \in Sessions |-> "none"]
    /\ has_system_audio = [s \in Sessions |-> FALSE]
    /\ capture = [s \in Sessions |-> "none"]
    /\ sender = [s \in Sessions |-> "none"]
    /\ receiver = [s \in Sessions |-> "none"]
    /\ batch_pc = [s \in Sessions |-> IF s = 1 THEN "select" ELSE "none"]
    /\ stop_chan = [s \in Sessions |-> IF s = 1 THEN "open" ELSE "none"]
    /\ status_events = {}
    /\ DemuxIdle
    /\ MixerIdle
    /\ BatchDiffIdle
    /\ ExtraIdle

\* lib.rs 428-474: the transcription request returns Ok(full_text).  The
\* timestamp of the segment and of the event is the wall clock and is left
\* out.
BatchTranscribed(s, full_text) ==
    /\ batch_pc[s] = "transcribing"
    /\ Len(batch_results) < MaxBatchResults
    /\ batch_results' = Append(batch_results, full_text)
    /\ batch_pc' = [batch_pc EXCEPT ![s] = "select"]
    /\ consecutive_errors' = 0
    /\ batch_retry_delay_ms' = 1000
    /\ last_transcribed_size' = current_size
    /\ UNCHANGED current_size
    /\ IF full_text # <<>>
       THEN LET new_text == BatchDelta(last_full_text, full_text)
            IN  /\ IF EmitsDelta(new_text)
                   THEN /\ transcription' =
                              VecPush(transcription,
                                      [speaker |-> "Speaker",
                                       text |-> clean_transcript(new_text)])
                        /\ transcript_events' =
                              Append(transcript_events,
                                     [text |-> new_text, speaker |-> "Speaker",
                                      is_final |-> TRUE])
                   ELSE UNCHANGED <<transcription, transcript_events>>
                /\ last_full_text' = full_text
       ELSE UNCHANGED <<transcription, transcript_events, last_full_text>>
    /\ UNCHANGED <<appVars, sessVars, retryVars, taskVars, stop_chan, status_events,
                   mixerVars, extraVars, has_system_audio_recv, received, last_interim_text_ch0,
                   last_interim_text_ch1, sent, handled, current_interim_index>>

\* lib.rs 410-415: the 4 s timer wins the select and the size of the
\* recording file is read; the file only grows
BatchPoll(s, size) ==
    /\ batch_pc[s] = "select"
    /\ size >= current_size
    /\ current_size' = size
    /\ batch_pc' = [batch_pc EXCEPT ![s] =
                      IF SaturatingSub(size, last_transcribed_size) >= MIN_AUDIO_BYTES
                      THEN "transcribing" ELSE "select"]
    /\ UNCHANGED <<appVars, sessVars, retryVars, taskVars, stop_chan, status_events,
                   demuxVars, mixerVars, extraVars, last_full_text, batch_results,
                   last_transcribed_size, consecutive_errors, batch_retry_delay_ms>>

\* lib.rs 475-494: the transcription request returns Err: the attempt is
\* counted, the status event is emitted with the delay before it is
\* doubled, the delay is doubled and the task sleeps it
BatchFailed(s) ==
    /\ batch_pc[s] = "transcribing"
    /\ consecutive_errors < MaxBatchErrors
    /\ consecutive_errors' = consecutive_errors + 1
    /\ status_events' = status_events \cup
                           {[session |-> s, status |-> "retrying",
                             attempt |-> consecutive_errors + 1,
                             next_retry_ms |-> batch_retry_delay_ms]}
    /\ batch_retry_delay_ms' = BatchNextDelay(batch_retry_delay_ms)
    /\ last_transcribed_size' = CursorAfterFailure(last_transcribed_size, current_size)
    /\ batch_pc' = [batch_pc EXCEPT ![s] = "backoff"]
    /\ UNCHANGED <<appVars, sessVars, retryVars, taskVars, stop_chan, demuxVars,
                   mixerVars, extraVars, last_full_text, batch_results, current_size>>

NextBatch ==
    \/ \E s \in Sessions, size \in FileSizes : BatchPoll(s, size)
    \/ \E s \in Sessions, t \in BatchTexts : BatchTranscribed(s, t)
    \/ \E s \in Sessions : BatchFailed(s)
    \/ \E s \in Sessions : BatchBackoffDone(s)
    \/ \E s \in Sessions : BatchStop(s)
    \/ \E k \in BOOLEAN : StopLive(k)

SpecBatch == InitBatch /\ [][NextBatch]_vars

\* =========================================================== batch claims

\* the batch task is returned the full text t in this step
ResultStep(t) == batch_results' = Append(batch_results, t)

\* new strictly extends prev
Extends(new, prev) ==
    /\ prev # <<>>
    /\ Len(new) > Len(prev)
    /\ SubSeq(new, 1, Len(prev)) = prev

\* what new adds to prev
SuffixOf(new, prev) == Trim(SubSeq(new, Len(prev) + 1, Len(new)))

\* the step commits one segment and sends one event carrying text d
EmitsExactly(d) ==
    /\ Len(transcript_events') = Len(transcript_events) + 1
    /\ SubSeq(transcript_events', 1, Len(transcript_events)) = transcript_events
    /\ transcript_events'[Len(transcript_events')].text = d
    /\ Len(transcription') = Len(transcription) + 1
    /\ SubSeq(transcription', 1, Len(transcription)) = transcription

EmitsNothing == UNCHANGED <<transcription, transcript_events>>

\* C18: when a batch result's full text strictly extends the previous full
\* text, the pipeline commits one segment and sends one event for exactly the
\* new suffix: previous "The cat", new "The cat sat" emits "sat".
C18_SuffixEmitted ==
    [][\A t \in BatchTexts :
          (ResultStep(t) /\ Extends(t, last_full_text))
          => EmitsExactly(SuffixOf(t, last_full_text))]_vars

\* C19: when a batch result equals the previous full text nothing is
\* committed and nothing is emitted, and the previous full text stays as it
\* is, so a repetition of any length leaves the log and the sink alone.
C19_UnchangedIsIdempotent ==
    [][\A t \in BatchTexts :
          (ResultStep(t) /\ t = last_full_text)
          => /\ EmitsNothing
             /\ last_full_text' = last_full_text]_vars

C19_Witness ==
    /\ Len(batch_results) = 3
    /\ batch_results[1] = T_Goodbye
    /\ batch_results[2] = T_Goodbye
    /\ batch_results[3] = T_Goodbye
    /\ last_full_text = T_Goodbye
    /\ Len(transcription) = 1
    /\ Len(transcript_events) = 1
    /\ transcript_events[1].text = T_Goodbye

\* C20: when the new full text neither equals nor extends the previous full
\* text, the emitted delta is the entire new text: previous "Hello world", new
\* "Goodbye" emits "Goodbye".
C20_DivergenceEmitsAll ==
    [][\A t \in BatchTexts :
          (/\ ResultStep(t)
           /\ t # <<>>
           /\ last_full_text # <<>>
           /\ t # last_full_text
           /\ ~Extends(t, last_full_text))
          => EmitsExactly(t)]_vars

\* C11: while a live transcription is in progress every step leaves the
\* committed log unchanged or appends one segment at its end; no committed
\* segment is removed, reordered or modified.
C11_LogAppendOnly ==
    [][is_live_transcribing =>
          /\ Len(transcription') \in {Len(transcription), Len(transcription) + 1}
          /\ SubSeq(transcription', 1, Len(transcription)) = transcription]_vars

\* the label the claim gives to a logical channel
LabelOfChannel(c) == IF c = 0 THEN "You" ELSE "Participant"

\* C12: the speaker label of every committed segment agrees with the logical
\* source of its event: "You" for multichannel channel 0 or diarized speaker
\* 0, "Participant" for any other channel or speaker.  (Segment i of the log
\* is the i-th final result.)
C12_LabelMatchesSource ==
    \A i \in 1..Len(transcription) :
        i <= Len(FinalResults) =>
            transcription[i].speaker = LabelOfChannel(LogicalChannel(FinalResults[i]))

Idx(n) == [i \in 1..n |-> i]

IsPrefix(a, b) == Len(a) <= Len(b) /\ a = SubSeq(b, 1, Len(a))

\* what the recognizer produced on channel c that is due to be delivered:
\* every final and the first interim of every run, in order
ForwardedOn(c) ==
    LET rs == ResultsOn(c)
        ix == SelectSeq(Idx(Len(rs)), LAMBDA i : ~IsInterim(rs[i]) \/ StartsRun(rs, i))
    IN  [k \in 1..Len(ix) |->
            [text |-> Trim(rs[ix[k]].transcript), is_final |-> ~IsInterim(rs[ix[k]])]]

\* the events of channel c at the sink, in sink order (event k stems from
\* message k of the transcript channel)
EventsOn(c) ==
    LET ix == SelectSeq(Idx(Len(transcript_events)),
                        LAMBDA k : k <= Len(sent) /\ ChannelOfSource(sent[k].source) = c)
    IN  [j \in 1..Len(ix) |->
            [text |-> transcript_events[ix[j]].text,
             is_final |-> transcript_events[ix[j]].is_final]]

HandledFinals == SelectSeq(SubSeq(sent, 1, handled), LAMBDA m : m.is_final)

\* the committed texts of channel c, in log order (segment i stems from the
\* i-th final message handled)
LogOn(c) ==
    LET ix == SelectSeq(Idx(Len(transcription)),
                        LAMBDA i : i <= Len(HandledFinals)
                                   /\ ChannelOfSource(HandledFinals[i].source) = c)
    IN  [j \in 1..Len(ix) |-> transcription[ix[j]].text]

FinalTextsOn(c) ==
    LET fs == SelectSeq(ForwardedOn(c), LAMBDA m : m.is_final)
    IN  [j \in 1..Len(fs) |-> clean_transcript(fs[j].text)]

\* C17: for each logical source the transcript events reach the event sink,
\* and the finals reach the committed log, in the order in which the
\* recognizer produced them; once every message is handled nothing is missing.
C17_PerSourceOrder ==
    \A c \in {0, 1} :
        /\ IsPrefix(EventsOn(c), ForwardedOn(c))
        /\ IsPrefix(LogOn(c), FinalTextsOn(c))
        /\ Drained => /\ EventsOn(c) = ForwardedOn(c)
                      /\ LogOn(c) = FinalTextsOn(c)

C17_Witness ==
    /\ Drained
    /\ Len(received) = 3
    /\ LogicalChannel(received[1]) = 0
    /\ LogicalChannel(received[2]) = 1
    /\ LogicalChannel(received[3]) = 0
    /\ \A i \in 1..3 : IsResult(received[i]) /\ ~IsInterim(received[i])
    /\ received[1].transcript # received[3].transcript
    /\ LogOn(0) = <<clean_transcript(Trim(received[1].transcript)),
                    clean_transcript(Trim(received[3].transcript))>>
    /\ Len(EventsOn(1)) = 1

\* ====================================================== batch retry claims

\* the Err arm of the batch task has run: one more consecutive error
FailureStep == consecutive_errors' = consecutive_errors + 1

\* the bytes of the recording file the cursor has not covered
Unseen == IF current_size >= last_transcribed_size
          THEN current_size - last_transcribed_size ELSE 0

\* C21: a failed batch transcription leaves the batch cursor
\* (last_transcribed_size and last_full_text) unchanged, so the bytes that
\* were unseen stay unseen (at least the threshold while errors are counted)
\* and the next tick that reads the file submits it again.
C21_FailureKeepsCursor ==
    /\ [][FailureStep =>
             /\ last_transcribed_size' = last_transcribed_size
             /\ last_full_text' = last_full_text]_vars
    /\ [](consecutive_errors > 0 => Unseen >= 48000)
    /\ [][(consecutive_errors > 0 /\ batch_pc[1] = "select"
             /\ current_size' # current_size)
            => batch_pc'[1] = "transcribing"]_vars

C21_Witness ==
    /\ consecutive_errors = 1
    /\ batch_pc[1] = "transcribing"
    /\ last_full_text = T_The_cat
    /\ last_transcribed_size = 48000
    /\ current_size = 120000
    /\ \E e \in status_events : e.attempt = 1

\* C30: the batch pipeline waits the delays of the streaming session: 1000 ms
\* after the first consecutive failure, 2000 ms after the second, doubling up
\* to 30000 ms.
C30_BatchBackoffSequence ==
    \A s \in Sessions :
        batch_pc[s] = "backoff" =>
            batch_retry_delay_ms = ExpectedDelay(consecutive_errors - 1)

\* a failure that is retried: the streaming retry task goes to sleep, the
\* batch task goes to its backoff
RetriedFailure(s) ==
    \/ consecutive_failures'[s] = consecutive_failures[s] + 1
         /\ retry_pc'[s] = "sleeping"
    \/ batch_pc[s] = "transcribing" /\ batch_pc'[s] = "backoff"

\* C22: every transient failure that is retried, a streaming connection
\* failure as well as a batch transcription failure, emits a status event
\* (which carries the attempt number and the next-retry delay).
C22_RetryEmitsStatus ==
    [][\A s \in Sessions :
          RetriedFailure(s) =>
             \E e \in status_events' :
                 e.session = s /\ e.status = "retrying"]_vars

\* C23: the batch pipeline runs only when no Deepgram key is configured, and
\* the streaming pipeline whenever one is.
C23_BatchOnlyWithoutStreamingKey ==
    \A s \in Sessions :
        /\ kind[s] = "batch" => deepgram_api_key = ""
        /\ kind[s] = "stream" => deepgram_api_key # ""

\* ============================================================== SpecClean
\* clean_transcript applied to the texts of add_manual_transcript
\* (lib.rs 743-757) in the idle application.

\* words per manual text
MaxWords == 3
\* manual segments added
MaxManualSegments == 1

\* the words of the manual texts: three fillers' words and a content word
CleanWords == { <<"u","m">>, <<"u","h">>, <<"o","k","a","y">>, <<"s","o">>,
                <<"h","e","l","l","o">> }

\* the texts of exactly n words, separated by one space
RECURSIVE WordTexts(_)
WordTexts(n) ==
    IF n = 1 THEN CleanWords
    ELSE { t \o <<" ">> \o w : t \in WordTexts(n - 1), w \in CleanWords }

CleanInputs == UNION { WordTexts(n) : n \in 1..MaxWords }

\* lib.rs 743-757: add_manual_transcript
AddManualTranscript(text, speaker) ==
    /\ Len(transcription) < MaxManualSegments
    /\ transcription' =
          VecPush(transcription, [speaker |-> speaker, text |-> clean_transcript(text)])
    /\ UNCHANGED <<lifecycleVars, mixerVars, diffVars, extraVars, has_system_audio_recv, received,
                   last_interim_text_ch0, last_interim_text_ch1, sent, handled,
                   current_interim_index, transcript_events>>

NextClean == \E t \in CleanInputs : AddManualTranscript(t, "You")

SpecClean == Init /\ [][NextClean]_vars

\* str::contains
Contains(str, pat) ==
    \E i \in 0..(Len(str) - Len(pat)) : SubSeq(str, i + 1, i + Len(pat)) = pat

\* a listed filler stands in the text as a whole-word sequence
HasFiller(o) ==
    \E k \in 1..Len(FILLER_WORDS) :
        Contains(<<" ">> \o ToLowercase(o) \o <<" ">>, FILLER_WORDS[k])

SingleSpaced(o) ==
    /\ o # <<>> => o[1] # " " /\ o[Len(o)] # " "
    /\ \A i \in 1..(Len(o) - 1) : ~(o[i] = " " /\ o[i + 1] = " ")

StartsUpper(o) == o # <<>> => \E i \in 1..26 : UpperChars[i] = o[1]

\* C24: for every input text the output of clean_transcript contains no
\* listed filler as a whole-word sequence, has single spaces between words
\* with no leading or trailing space, and starts with an upper-case letter
\* when it is not empty.
C24_CleanOutput ==
    \A i \in 1..Len(transcription) :
        LET o == transcription[i].text
        IN  ~HasFiller(o) /\ SingleSpaced(o) /\ StartsUpper(o)

\* ================================================= capture and sender claims

\* C25: on a mixer tick where the mic buffer holds fewer than
\* samples_per_100ms samples no chunk is emitted and neither the mic buffer
\* nor the system-audio buffer is modified: while the capture thread is at
\* its loop and the mic buffer is short, every step that is not a device
\* callback leaves both buffers as they are and hands no chunk to the queue.
C25_ShortMicSkipsTick ==
    [][(has_system_audio[1] /\ capture_pc = "idle" /\ Len(mic_buffer) < PerTick
          /\ ncallbacks' = ncallbacks)
         => /\ mic_buffer' = mic_buffer
            /\ system_buffer' = system_buffer
            /\ capture_pc' = "idle"
            /\ Len(Emitted') <= Len(Emitted)]_vars

\* a pass was skipped with samples waiting in both buffers, a full tick of
\* them in the system buffer, and nothing has been emitted
C25_Witness ==
    /\ last_pass = <<"skipped", Len(mic_buffer), Len(system_buffer)>>
    /\ mic_buffer # <<>>
    /\ Len(mic_buffer) < PerTick
    /\ Len(system_buffer) >= PerTick
    /\ capture_pc = "idle"
    /\ Emitted = <<>>
    /\ sender[1] = "running"

\* C26: when the outbound queue is closed the capture driver exits, in stereo
\* mode and in mono mode alike: a blocking_send that returns with the
\* receiving end gone ends the capture.
C26_ClosedQueueEndsCapture ==
    [][(capture_pc = "sending" /\ capture_pc' = "idle" /\ sender[1] # "running")
         => capture'[1] = "exited"]_vars

\* C27: on stop every chunk already queued is written before the sender task
\* exits: when the sender ends with the flag clear, the queue holds no chunk
\* beyond the one it has just written.
C27_StopDrainsQueue ==
    [][(~is_running[1] /\ sender[1] = "running" /\ sender'[1] = "flag")
         => Len(audio_chan) <= 1]_vars

\* ========================================================= inbound claims

\* the result is final
IsFinal(f) == IsResult(f) /\ (f.is_final \/ f.speech_final)

\* C28: a final result with non-empty text is always emitted, as a final
\* message with its trimmed text, and clears the last-interim text of its own
\* source only; an interim that follows a final of its source is emitted
\* whatever its text, so an interim equal to the one seen before the final is
\* emitted again.
C28_FinalEmittedAndClears ==
    [][\A f \in AllFrames :
          /\ (Reads(f) /\ IsFinal(f)) =>
                LET c == LogicalChannel(f)
                IN  /\ Len(sent') = Len(sent) + 1
                    /\ sent'[Len(sent')].is_final
                    /\ sent'[Len(sent')].text = Trim(f.transcript)
                    /\ ChannelOfSource(sent'[Len(sent')].source) = c
                    /\ LastInterimOf(c)' = <<>>
                    /\ LastInterimOf(1 - c)' = LastInterimOf(1 - c)
          /\ (Reads(f) /\ IsInterim(f)) =>
                LET rs == ResultsOn(LogicalChannel(f))
                IN  (rs # <<>> /\ IsFinal(rs[Len(rs)])) =>
                       /\ Len(sent') = Len(sent) + 1
                       /\ ~sent'[Len(sent')].is_final
                       /\ sent'[Len(sent')].text = Trim(f.transcript)]_vars

\* an interim, a final and the first interim's text again as an interim, all
\* on one source: three messages, the last one an interim
C28_Witness ==
    /\ Len(received) = 3
    /\ IsInterim(received[1]) /\ IsFinal(received[2]) /\ IsInterim(received[3])
    /\ LogicalChannel(received[1]) = LogicalChannel(received[2])
    /\ LogicalChannel(received[3]) = LogicalChannel(received[2])
    /\ Trim(received[1].transcript) = Trim(received[3].transcript)
    /\ Len(sent) = 3
    /\ ~sent[3].is_final

\* the message is one the receiver skips
IsSkipped(f) ==
    \/ ~f.parsed
    \/ f.msg_type # "Results"
    \/ f.alternatives = 0
    \/ Trim(f.transcript) = <<>>

\* C29: an inbound message that fails to parse, is not of type Results, has
\* no alternatives or has empty transcript text produces no message and no
\* event, leaves both last-interim texts unchanged and does not end the
\* receive loop.
C29_SkippedMessages ==
    [][\A f \in InboundFrames :
          (Reads(f) /\ IsSkipped(f)) =>
             /\ sent' = sent
             /\ transcript_events' = transcript_events
             /\ transcription' = transcription
             /\ last_interim_text_ch0' = last_interim_text_ch0
             /\ last_interim_text_ch1' = last_interim_text_ch1
             /\ receiver'[1] = "running"]_vars

\* an interim, a text that does not parse, the same interim again: the loop
\* went on and the repeat was still suppressed
C29_Witness ==
    /\ Len(received) = 3
    /\ IsInterim(received[1])
    /\ ~received[2].parsed
    /\ received[3] = received[1]
    /\ Len(sent) = 1
    /\ LastInterimOf(LogicalChannel(received[1])) = Trim(received[1].transcript)
    /\ receiver[1] = "running"

\* ================================================== batch waiting claims

\* C31: the next_retry_ms of the status event emitted for a failure equals
\* the delay the batch task then waits for that failure.
C31_ReportedDelayIsWaited ==
    \A s \in Sessions :
        batch_pc[s] = "backoff" =>
            \A e \in status_events :
                (e.session = s /\ e.attempt = consecutive_errors)
                    => e.next_retry_ms = batch_retry_delay_ms

\* the stop signal of session s has been sent or its sending end dropped
StopSignalled(s) == stop_chan[s] \in {"sent", "closed"}

\* C32: while the batch task waits, for the check interval or for a retry
\* backoff, a stop signal ends the wait and the loop.  For the backoff wait:
\* once the signal is there, the wait does not run to its end, the next step
\* of the task is its exit.
C32_StopEndsAnyWait ==
    [][\A s \in Sessions :
          (StopSignalled(s) /\ batch_pc[s] = "backoff" /\ batch_pc'[s] # "backoff")
            => batch_pc'[s] = "done"]_vars

\* ============================================================= SpecUpload
\* One batch session whose recording is near the upload ceiling: the tick
\* and the bytes the transcription request submits (groq.rs 171-236,
\* assemblyai.rs 55-58).  A payload is a record: patched, whether it starts
\* with the 44-byte header whose bytes 4..8 (riff) and 40..44 (data) were
\* rewritten; start and len, the range of bytes of the file that follows
\* (the whole file from offset 0 when it is not patched).

\* groq.rs 164
MAX_WHISPER_FILE_SIZE == 15000000
\* groq.rs 167
WAV_HEADER_SIZE == 44

\* the sizes of the recording lie within this distance of the ceiling
MaxSizeOffset == 50

UploadSizes ==
    { MAX_WHISPER_FILE_SIZE + k : k \in (0 - MaxSizeOffset)..MaxSizeOffset }
    \cup { 2 * MAX_WHISPER_FILE_SIZE }

\* u32::to_le_bytes of a value below 2^31
U32ToLeBytes(x) ==
    <<x % 256, (x \div 256) % 256, (x \div 65536) % 256, (x \div 16777216) % 256>>

\* groq.rs 183-184: the audio bytes read
AudioToRead_WithHeader(max_size, total_audio_data) == Min(max_size, total_audio_data)
AudioToRead(max_size, total_audio_data) ==
    Min(max_size - WAV_HEADER_SIZE, total_audio_data)

\* groq.rs 171-211
extract_recent_audio(file_size, max_size) ==
    LET total_audio_data == file_size - WAV_HEADER_SIZE
        audio_to_read == AudioToRead(max_size, total_audio_data)
        start_pos == file_size - audio_to_read
        new_file_size == WAV_HEADER_SIZE + audio_to_read - 8
        data_size == audio_to_read
    IN  [patched |-> TRUE, riff |-> U32ToLeBytes(new_file_size),
         data |-> U32ToLeBytes(data_size), start |-> start_pos, len |-> audio_to_read]

\* std::fs::read, tokio::fs::read
WholeFile(file_size) ==
    [patched |-> FALSE, riff |-> <<>>, data |-> <<>>, start |-> 0, len |-> file_size]

\* groq.rs 225-236: the bytes transcribe_audio submits
FileBytes(file_size) ==
    IF file_size <= MAX_WHISPER_FILE_SIZE
    THEN WholeFile(file_size)
    ELSE extract_recent_audio(file_size, MAX_WHISPER_FILE_SIZE)

\* lib.rs 393: use_groq
UseGroq ==
    EffectiveProvider(transcription_provider, deepgram_api_key, groq_api_key,
                      assemblyai_api_key) = "Groq"

\* lib.rs 419-425: the request reads the recording, of size file_size by now
\* (groq.rs 225-236, assemblyai.rs 58)
ReadRecording(s, file_size) ==
    /\ batch_pc[s] = "transcribing"
    /\ payload = NoPayload
    /\ file_size >= current_size
    /\ upload_size' = file_size
    /\ payload' = IF UseGroq THEN FileBytes(file_size) ELSE WholeFile(file_size)
    /\ UNCHANGED <<lifecycleVars, demuxVars, mixerVars, diffVars, compVars, recVars, mockVars, monitorVars>>

NextUpload ==
    \/ \E s \in Sessions, size \in UploadSizes : BatchPoll(s, size)
    \/ \E s \in Sessions, size \in UploadSizes : ReadRecording(s, size)

SpecUpload == InitBatch /\ [][NextUpload]_vars

\* the length of a payload in bytes
PayloadLen(p) == IF p.patched THEN 44 + p.len ELSE p.len

\* u32::from_le_bytes
FromLeBytes(b) == b[1] + 256 * b[2] + 65536 * b[3] + 16777216 * b[4]

MaxSpawns == 1
MaxGuardSessions == 1

\* realtime.rs 73-271 and system_audio.rs 100-267: start.  ok: the device is
\* found (and, for the RealtimeTranscriber, the token is issued and the
\* socket connects); an error returns after the flag was set.
ComponentStart(c, ok) ==
    /\ IF AlreadyRunning(comp_running[c])
       THEN UNCHANGED compVars
       ELSE /\ comp_spawned[c] < MaxSpawns
            /\ comp_running' = [comp_running EXCEPT ![c] = TRUE]
            /\ comp_spawned' = [comp_spawned EXCEPT ![c] = IF ok THEN @ + 1 ELSE @]
    /\ UNCHANGED <<lifecycleVars, demuxVars, mixerVars, diffVars, uploadVars, recVars, mockVars, monitorVars>>

\* realtime.rs 276-278, system_audio.rs 270-272: stop
ComponentStop(c) ==
    /\ comp_running' = [comp_running EXCEPT ![c] = FALSE]
    /\ UNCHANGED <<lifecycleVars, demuxVars, mixerVars, diffVars, uploadVars, recVars, mockVars, monitorVars, comp_spawned>>

NextGuard ==
    \/ \E k \in BOOLEAN :
          /\ is_live_transcribing \/ nsessions < MaxGuardSessions
          /\ StartLive(k)
    \/ \E k \in BOOLEAN : StopLive(k)
    \/ \E s \in Sessions, m \in BOOLEAN, a \in BOOLEAN : RetryFirstCall(s, m, a)
    \/ \E s \in Sessions, ok \in BOOLEAN : ConnectDone(s, ok)
    \/ \E s \in Sessions, m \in BOOLEAN, a \in BOOLEAN : RetryWake(s, m, a)
    \/ \E c \in Components, ok \in BOOLEAN : ComponentStart(c, ok)
    \/ \E c \in Components : ComponentStop(c)

SpecGuard == Init /\ [][NextGuard]_vars

StartFailed ==
    /\ nsessions' = nsessions + 1
    /\ retry_pc'[nsessions'] # "spawned"
    /\ batch_pc'[nsessions'] = "none"

\* C35: whenever start_live_transcription returns an error,
\* is_live_transcribing has the value it had before the call and no stop
\* channel or recorder is left behind.
C35_FailedStartLeavesNothing ==
    [][StartFailed =>
          /\ is_live_transcribing' = is_live_transcribing
          /\ live_stop_signal' = live_stop_signal
          /\ audio_recorder' = audio_recorder]_vars

\* C36: after stop_live_transcription has returned, the stopped session
\* appends no further segment to the committed transcript.
C36_NoSegmentAfterStop ==
    [][(\E s \in Sessions :
            /\ kind[s] = "batch"
            /\ StopSignalled(s)
            /\ ~is_live_transcribing)
          => transcription' = transcription]_vars

\* C37: a batch task's exit affects only its own session: the task of an
\* earlier session never sets is_live_transcribing to false while a later
\* batch session is running.
C37_ExitAffectsOwnSession ==
    [][\A s \in Sessions :
          (/\ batch_pc[s] # "done"
           /\ batch_pc'[s] = "done"
           /\ is_live_transcribing
           /\ \E t \in Sessions : t > s /\ batch_pc[t] = "select")
            => is_live_transcribing']_vars

\* ============================================================= SpecRecord
\* start_recording and stop_recording next to live transcription: the two
\* pairs of commands share AppState.audio_recorder.

\* the recorder start_recording stores, told apart from the sessions' recorders
ManualRecorder == MaxSessions + 1

\* lib.rs 179-194: start_recording.  ok: AudioRecorder::new() succeeds.
StartRecording(ok) ==
    /\ IF is_recording \/ ~ok
       THEN UNCHANGED <<audio_recorder, is_recording>>
       ELSE /\ audio_recorder' = ManualRecorder
            /\ is_recording' = TRUE
    /\ UNCHANGED <<transcription_provider, deepgram_api_key, groq_api_key,
                   assemblyai_api_key, is_live_transcribing, deepgram_stop_flag,
                   deepgram_transcriber, live_stop_signal, sessVars, retryVars,
                   taskVars, batchVars, status_events, demuxVars, mixerVars,
                   diffVars, uploadVars, compVars, mockVars, monitorVars>>

\* lib.rs 197-211: stop_recording.  stop_ok: recorder.stop() succeeds; the
\* recorder is taken out of the state before it is stopped.
StopRecording(stop_ok) ==
    /\ IF ~is_recording
       THEN UNCHANGED <<audio_recorder, is_recording>>
       ELSE IF audio_recorder # None
            THEN /\ audio_recorder' = None
                 /\ is_recording' = IF stop_ok THEN FALSE ELSE is_recording
            ELSE UNCHANGED <<audio_recorder, is_recording>>
    /\ UNCHANGED <<transcription_provider, deepgram_api_key, groq_api_key,
                   assemblyai_api_key, is_live_transcribing, deepgram_stop_flag,
                   deepgram_transcriber, live_stop_signal, sessVars, retryVars,
                   taskVars, batchVars, status_events, demuxVars, mixerVars,
                   diffVars, uploadVars, compVars, mockVars, monitorVars>>

NextRecord ==
    \/ \E k \in BOOLEAN : StartRecording(k)
    \/ \E k \in BOOLEAN : StopRecording(k)
    \/ \E k \in BOOLEAN : StartLive(k)
    \/ \E k \in BOOLEAN : StopLive(k)
    \/ \E s \in Sessions : BatchStop(s)

SpecRecord == Init /\ [][NextRecord]_vars

\* C38: after any sequence of start_recording, stop_recording,
\* start_live_transcription and stop_live_transcription, is_recording is
\* true only while an AudioRecorder is stored.
C38_RecordingHasRecorder == is_recording => audio_recorder # None

\* =============================================================== SpecMock
\* start_mock_transcription, stop_mock_transcription and the mock session
\* tasks.

MockTexts == { <<>>, T_Hello_world }

\* the state the mock actions leave alone
mockRest == <<lifecycleVars, has_system_audio_recv, received, last_interim_text_ch0,
              last_interim_text_ch1, sent, handled, current_interim_index,
              mixerVars, diffVars, uploadVars, compVars, recVars, monitorVars>>

\* lib.rs 1124-1170: start_mock_transcription; the command has no await, the
\* test of the flag and its setting are taken as one step
StartMock ==
    /\ IF is_mock_transcribing \/ groq_api_key = ""
       THEN UNCHANGED mockVars
       ELSE /\ nmock < MaxMockTasks
            /\ nmock' = nmock + 1
            /\ mock_stop_signal' = nmock'
            /\ is_mock_transcribing' = TRUE
            /\ mock_pc' = [mock_pc EXCEPT ![nmock'] = "turn"]
            /\ UNCHANGED <<stop_signal, turn, participant_file>>
    /\ UNCHANGED <<mockRest, transcription, transcript_events>>

\* lib.rs 1174-1183: stop_mock_transcription
StopMock ==
    /\ IF mock_stop_signal # None
       THEN stop_signal' = [stop_signal EXCEPT ![mock_stop_signal] = TRUE]
       ELSE UNCHANGED stop_signal
    /\ mock_stop_signal' = None
    /\ is_mock_transcribing' = FALSE
    /\ UNCHANGED <<mockRest, transcription, transcript_events, nmock, mock_pc, turn,
                   participant_file>>

\* mock.rs 139-140 and lib.rs 1157-1166: run_mock_session returns and the
\* spawned task marks the session as not running
MockReturn(t) ==
    /\ mock_pc' = [mock_pc EXCEPT ![t] = "done"]
    /\ is_mock_transcribing' = FALSE

\* mock.rs 55-77: the top of the loop.  you, participant: the files of the
\* turn exist; no directory holds more than MaxTurns turns.
MockTurn(t, you, participant) ==
    /\ mock_pc[t] = "turn"
    /\ IF stop_signal[t] \/ turn[t] > MaxTurns \/ (~you /\ ~participant)
       THEN /\ MockReturn(t)
            /\ UNCHANGED participant_file
       ELSE /\ mock_pc' = [mock_pc EXCEPT ![t] = IF you THEN "you" ELSE "check"]
            /\ participant_file' = [participant_file EXCEPT ![t] = participant]
            /\ UNCHANGED is_mock_transcribing
    /\ UNCHANGED <<mockRest, transcription, transcript_events, mock_stop_signal,
                   nmock, stop_signal, turn>>

\* mock.rs 78-100 and 111-133: a request returns; Ok(text) with a text that
\* is not empty is pushed and emitted, anything else is logged
MockPush(speaker, text) ==
    IF text # <<>>
    THEN /\ transcription' = VecPush(transcription, [speaker |-> speaker, text |-> text])
         /\ transcript_events' = Append(transcript_events,
                                        [text |-> text, speaker |-> speaker])
    ELSE UNCHANGED <<transcription, transcript_events>>

\* mock.rs 78-103: the request of the "You" file returns, then the 800 ms
MockYou(t, text) ==
    /\ mock_pc[t] = "you"
    /\ MockPush("You", text)
    /\ mock_pc' = [mock_pc EXCEPT ![t] = "check"]
    /\ UNCHANGED <<mockRest, is_mock_transcribing, mock_stop_signal, nmock,
                   stop_signal, turn, participant_file>>

\* mock.rs 105-110: the second test of the stop signal
MockCheck(t) ==
    /\ mock_pc[t] = "check"
    /\ IF stop_signal[t]
       THEN /\ MockReturn(t)
            /\ UNCHANGED turn
       ELSE /\ IF participant_file[t]
               THEN /\ mock_pc' = [mock_pc EXCEPT ![t] = "participant"]
                    /\ UNCHANGED turn
               ELSE /\ mock_pc' = [mock_pc EXCEPT ![t] = "turn"]
                    /\ turn' = [turn EXCEPT ![t] = @ + 1]
            /\ UNCHANGED is_mock_transcribing
    /\ UNCHANGED <<mockRest, transcription, transcript_events, mock_stop_signal,
                   nmock, stop_signal, participant_file>>

\* mock.rs 111-137: the request of the "Participant" file returns, then the
\* 800 ms and the next turn
MockParticipant(t, text) ==
    /\ mock_pc[t] = "participant"
    /\ MockPush("Participant", text)
    /\ mock_pc' = [mock_pc EXCEPT ![t] = "turn"]
    /\ turn' = [turn EXCEPT ![t] = @ + 1]
    /\ UNCHANGED <<mockRest, is_mock_transcribing, mock_stop_signal, nmock,
                   stop_signal, participant_file>>

NextMock ==
    \/ StartMock
    \/ StopMock
    \/ \E t \in MockTasks, y \in BOOLEAN, p \in BOOLEAN : MockTurn(t, y, p)
    \/ \E t \in MockTasks, x \in MockTexts : MockYou(t, x)
    \/ \E t \in MockTasks : MockCheck(t)
    \/ \E t \in MockTasks, x \in MockTexts : MockParticipant(t, x)

SpecMock == Init /\ [][NextMock]_vars

MockRunning(t) == mock_pc[t] \in {"turn", "you", "check", "participant"}

\* C39: under any interleaving of start_mock_transcription and
\* stop_mock_transcription, at most one mock session task runs at a time and
\* is_mock_transcribing is true whenever a mock session task is running.
C39_OneMockTask ==
    /\ Cardinality({t \in MockTasks : MockRunning(t)}) <= 1
    /\ (\E t \in MockTasks : MockRunning(t)) => is_mock_transcribing

\* ============================================================ SpecMonitor
\* One caller of MeetingMonitor::check_for_meetings at a time, next to
\* update_settings and reset_trigger.  Each await of a lock is a place of
\* the call; a guard lives to the end of the block that binds it.

\* calls of check_for_meetings
MaxChecks == 2
EventIds == {"e1", "e2"}

MonitorSettings ==
    [enabled : BOOLEAN, detect_meeting_apps : BOOLEAN, auto_start_on_time : BOOLEAN]

\* calendar.get_upcoming_events and the parse of the next meeting's start
\* time: an error, no upcoming meeting, a start time that does not parse, or
\* a meeting with minutes_until within the buffer and at most 10
CalendarResults ==
    { [NoMeeting EXCEPT !.kind = k] : k \in {"Err", "none", "unparsable"} } \cup
    { [kind |-> "meeting", id |-> i, is_starting_soon |-> soon, within_ten |-> ten,
       meeting_app_detected |-> FALSE] :
          i \in EventIds, soon \in BOOLEAN, ten \in BOOLEAN }

Guard(lock, mode) == [lock |-> lock, mode |-> mode]

\* the lock and the mode the call awaits at each place
Wants(pc) ==
    CASE pc = "settings.read" -> Guard("settings", "read")
      [] pc = "last_triggered.read" -> Guard("last_triggered_event_id", "read")
      [] pc = "status.write" -> Guard("status", "write")
      [] pc = "status.write.none" -> Guard("status", "write")
      [] pc = "last_triggered.write" -> Guard("last_triggered_event_id", "write")

LockWaits == {"settings.read", "last_triggered.read", "status.write",
              "status.write.none", "last_triggered.write"}

\* tokio::sync::RwLock: a write waits for every guard, a read for a writer
Grantable(g) ==
    IF g.mode = "write"
    THEN \A h \in guards : h.lock # g.lock
    ELSE \A h \in guards : ~(h.lock = g.lock /\ h.mode = "write")

\* the call returns r and drops its guards
CheckReturns(r) ==
    /\ check_pc' = "returned"
    /\ check_result' = r
    /\ guards' = {}

\* meeting_monitor.rs 145-149: check_for_meetings is called
CheckCall ==
    /\ check_pc \in {"idle", "returned"}
    /\ nchecks < MaxChecks
    /\ nchecks' = nchecks + 1
    /\ check_pc' = "settings.read"
    /\ check_result' = "none"
    /\ should_auto_start' = FALSE
    /\ meeting' = NoMeeting
    /\ UNCHANGED <<settings, status, last_triggered_event_id, guards>>
    /\ UNCHANGED <<lifecycleVars, demuxVars, mixerVars, diffVars, uploadVars,
                   compVars, recVars, mockVars>>

\* meeting_monitor.rs 156-166 and 206-214: get_upcoming_events returns
CalendarReturns(ev) ==
    /\ check_pc = "events"
    /\ IF ev.kind = "Err" THEN CheckReturns("Err") /\ UNCHANGED meeting
       ELSE IF ev.kind = "unparsable" THEN CheckReturns("Ok(false)") /\ UNCHANGED meeting
       ELSE IF ev.kind = "none"
            THEN /\ check_pc' = "status.write.none"
                 /\ UNCHANGED <<meeting, check_result, guards>>
            ELSE /\ check_pc' = "last_triggered.read"
                 /\ meeting' = ev
                 /\ UNCHANGED <<check_result, guards>>
    /\ UNCHANGED <<settings, status, last_triggered_event_id, should_auto_start, nchecks>>
    /\ UNCHANGED <<lifecycleVars, demuxVars, mixerVars, diffVars, uploadVars,
                   compVars, recVars, mockVars>>

\* meeting_monitor.rs 149-216: the lock the call awaits is granted and the
\* call runs to its next await.  app: detect_meeting_apps() finds a meeting
\* application.
LockGranted(app) ==
    /\ check_pc \in LockWaits
    /\ Grantable(Wants(check_pc))
    /\ LET held == guards \cup {Wants(check_pc)} IN
       CASE check_pc = "settings.read" ->
              /\ IF ~settings.enabled
                 THEN CheckReturns("Ok(false)")
                 ELSE /\ check_pc' = "events"
                      /\ guards' = held
                      /\ UNCHANGED check_result
              /\ UNCHANGED <<status, last_triggered_event_id, meeting, should_auto_start>>
         [] check_pc = "last_triggered.read" ->
              LET already_triggered == last_triggered_event_id = meeting.id
                  meeting_app_detected == settings.detect_meeting_apps /\ app
              IN  /\ should_auto_start' =
                        (/\ ~already_triggered
                         /\ \/ settings.auto_start_on_time /\ meeting.is_starting_soon
                            \/ /\ settings.detect_meeting_apps
                               /\ meeting_app_detected
                               /\ meeting.within_ten)
                  /\ meeting' = [meeting EXCEPT !.meeting_app_detected = meeting_app_detected]
                  /\ check_pc' = "status.write"
                  /\ guards' = held
                  /\ UNCHANGED <<status, last_triggered_event_id, check_result>>
         [] check_pc = "status.write" ->
              /\ status' = [is_meeting_detected |->
                                meeting.is_starting_soon \/ meeting.meeting_app_detected,
                            upcoming_meeting |-> meeting.id,
                            auto_start_triggered |-> should_auto_start]
              /\ IF should_auto_start
                 THEN /\ check_pc' = "last_triggered.write"
                      /\ guards' = held
                      /\ UNCHANGED check_result
                 ELSE CheckReturns("Ok(false)")
              /\ UNCHANGED <<last_triggered_event_id, meeting, should_auto_start>>
         [] check_pc = "status.write.none" ->
              /\ status' = NoStatus
              /\ CheckReturns("Ok(false)")
              /\ UNCHANGED <<last_triggered_event_id, meeting, should_auto_start>>
         [] check_pc = "last_triggered.write" ->
              /\ last_triggered_event_id' = meeting.id
              /\ CheckReturns("Ok(true)")
              /\ UNCHANGED <<status, meeting, should_auto_start>>
    /\ UNCHANGED <<settings, nchecks>>
    /\ UNCHANGED <<lifecycleVars, demuxVars, mixerVars, diffVars, uploadVars,
                   compVars, recVars, mockVars>>

\* meeting_monitor.rs 66-69: update_settings, once its write is granted
UpdateSettings(new) ==
    /\ Grantable(Guard("settings", "write"))
    /\ settings' = new
    /\ UNCHANGED <<status, last_triggered_event_id, check_pc, guards, meeting,
                   should_auto_start, check_result, nchecks>>
    /\ UNCHANGED <<lifecycleVars, demuxVars, mixerVars, diffVars, uploadVars,
                   compVars, recVars, mockVars>>

\* meeting_monitor.rs 220-226: reset_trigger, once its writes are granted
ResetTrigger ==
    /\ Grantable(Guard("last_triggered_event_id", "write"))
    /\ Grantable(Guard("status", "write"))
    /\ last_triggered_event_id' = "None"
    /\ status' = [status EXCEPT !.auto_start_triggered = FALSE]
    /\ UNCHANGED <<settings, check_pc, guards, meeting, should_auto_start,
                   check_result, nchecks>>
    /\ UNCHANGED <<lifecycleVars, demuxVars, mixerVars, diffVars, uploadVars,
                   compVars, recVars, mockVars>>

NextMonitor ==
    \/ CheckCall
    \/ \E ev \in CalendarResults : CalendarReturns(ev)
    \/ \E app \in BOOLEAN : LockGranted(app)
    \/ \E new \in MonitorSettings : UpdateSettings(new)
    \/ ResetTrigger

SpecMonitor == Init /\ [][NextMonitor]_vars

\* C40: check_for_meetings never waits for a lock on
\* last_triggered_event_id, status or settings that it is itself still
\* holding, including when it decides to auto-start a meeting.
C40_NeverWaitsOnOwnGuard ==
    check_pc \in LockWaits => \A h \in guards : h.lock # Wants(check_pc).lock

====
